---- MODULE Spec2Model ----
(***************************************************************************)
(* A model of git-year-end-report: the statistics merge model of           *)
(* models.py (UserStats, RepoStats, Report) on a heap of UserStats         *)
(* objects, so that the object sharing of add_user_stats is part of the    *)
(* model, and the forge adapters of forges/*.py.                           *)
(***************************************************************************)
EXTENDS Integers, Sequences, FiniteSets, TLC

VARIABLES
    heap,             \* the UserStats objects: heap[id] is the object with identity id
    repo_stats,       \* the RepoStats under construction (forge, repo, user_stats)
    report,           \* the Report (year, start_date, end_date, repos)
    total_stats,      \* what the last get_total_stats() call returned
    calls,            \* get_total_stats() calls since the last append to report.repos
    inserted,         \* the UserStats values passed to repo_stats.add_user_stats, in call order
    ops,              \* operations performed so far
    forge,            \* the adapter: "GitHub", "GitLab" or "Pagure"
    job,              \* the arguments of get_repo_stats: repo, usernames, start_date, end_date
    db,               \* what the forge holds: items (issues and pull requests) and commits
    server,           \* how the forge answers: its page size, whether it sends X-Total-Pages
    failing,          \* the requests (by number) the forge answers with an HTTP error
    unanswered,       \* the requests (by number) that get no answer: client.get raises
    status,           \* of the adapter call: "idle", "running", "enumerating", "returned", "raised"
    frame,            \* the locals of get_repo_stats and of the call in progress below it
    api_call_count,   \* ForgeClient.api_call_count
    sent,             \* the HTTP requests the adapter has issued
    wire,             \* the requests issued by the _make_request call in progress
    done_call,        \* the last _make_request call that returned: its requests and its result
    client,           \* the other fields of the adapter object: token, endpoint
    counted,          \* the HTTP requests issued since construction or the last reset
    found,            \* repos of enumerate_repos: what the call has found, and returns
    config,           \* what generate runs on: year, the instant now, forges, output_path
    pc,               \* where generate is: the phase and the job (forge and repo index)
    errors,           \* the jobs generate has reported an error for, as <<forge name, repo>>
    output            \* what generate has handed to the renderer

modelVars == <<heap, repo_stats, report, total_stats, calls, inserted, ops>>
clientVars == <<client, counted, found>>
generateVars == <<config, pc, errors, output>>
fetchVars == <<forge, job, db, server, failing, unanswered, status, frame, api_call_count, sent,
               wire, done_call, client, counted, found, config, pc, errors, output>>
vars == <<heap, repo_stats, report, total_stats, calls, inserted, ops,
          forge, job, db, server, failing, unanswered, status, frame, api_call_count, sent,
          wire, done_call, client, counted, found, config, pc, errors, output>>

(***************************************************************************)
(* Bounds of the model.                                                    *)
(***************************************************************************)
MaxOps == 5
DayLen == 2        \* instants per calendar day
MaxPageSize == 2   \* the most items a forge puts on one page
MaxItems == 4      \* the most items of one kind a forge holds
MaxComments == 3   \* the most comments of one user on one item
MaxRequests == 24  \* the requests of one get_repo_stats call that may fail
YearDays == 2      \* calendar days per year

Usernames == {"alice", "bob"}

\* The counter values a caller passes in, as <<issues_opened, issues_closed,
\* prs_opened, prs_closed, prs_merged, commits, pr_comments, issue_comments>>.
ZeroCounters == <<0, 0, 0, 0, 0, 0, 0, 0>>
SampleCounters == {ZeroCounters, <<1, 2, 3, 4, 5, 6, 7, 8>>, <<2, 0, 1, 0, 0, 3, 0, 1>>}

(***************************************************************************)
(* models.py: UserStats                                                    *)
(***************************************************************************)
Fields == <<"issues_opened", "issues_closed", "prs_opened", "prs_closed",
            "prs_merged", "commits", "pr_comments", "issue_comments">>

\* UserStats(username=username): every counter defaults to 0.
UserStats(username) ==
    [username |-> username,
     issues_opened |-> 0, issues_closed |-> 0, prs_opened |-> 0, prs_closed |-> 0,
     prs_merged |-> 0, commits |-> 0, pr_comments |-> 0, issue_comments |-> 0]

\* UserStats(username, c[1], ..., c[8]): the constructor with every counter given.
UserStatsOf(username, c) ==
    [username |-> username,
     issues_opened |-> c[1], issues_closed |-> c[2], prs_opened |-> c[3],
     prs_closed |-> c[4], prs_merged |-> c[5], commits |-> c[6],
     pr_comments |-> c[7], issue_comments |-> c[8]]

\* The eight counters of a UserStats, in field order.
Counters(s) == [i \in 1..Len(Fields) |-> s[Fields[i]]]

(***************************************************************************)
(* A Python dict, as the sequence of its items <<key, value>> in insertion  *)
(* order.                                                                  *)
(***************************************************************************)
DictHas(d, key) == \E i \in DOMAIN d : d[i].k = key

DictGet(d, key) == d[CHOOSE i \in DOMAIN d : d[i].k = key].v

DictSet(d, key, value) ==
    IF DictHas(d, key)
    THEN [i \in DOMAIN d |-> IF d[i].k = key THEN [k |-> key, v |-> value] ELSE d[i]]
    ELSE Append(d, [k |-> key, v |-> value])

DictKeys(d) == {d[i].k : i \in DOMAIN d}

(***************************************************************************)
(* models.py: RepoStats                                                    *)
(***************************************************************************)
RepoStats(forge_, repo) == [forge |-> forge_, repo |-> repo, user_stats |-> <<>>]

\* A plausible bug: the entry of a username already present is replaced.
add_user_stats_replace(user_stats, h, stats) ==
    [user_stats |-> DictSet(user_stats, h[stats].username, stats), heap |-> h]

\* A plausible bug: a UserStats without activity is not stored.
add_user_stats_active(user_stats, h, stats) ==
    IF \A f \in {"issues_opened", "issues_closed", "prs_opened", "prs_closed",
                 "prs_merged", "commits", "pr_comments", "issue_comments"} :
           h[stats][f] = 0
    THEN [user_stats |-> user_stats, heap |-> h]
    ELSE [user_stats |-> DictSet(user_stats, h[stats].username, stats), heap |-> h]

\* A plausible bug: a second entry is stored for a username already present.
add_user_stats_append(user_stats, h, stats) ==
    [user_stats |-> Append(user_stats, [k |-> h[stats].username, v |-> stats]),
     heap |-> h]

\* RepoStats.add_user_stats(stats) on the mapping user_stats, with the objects
\* in heap h; stats is the identity of the caller's object.  The statements
\* run one after the other on the heap, and the object stored for a new
\* username is the caller's own.
add_user_stats(user_stats, h, stats) ==
    LET username == h[stats].username IN
    IF DictHas(user_stats, username)
    THEN LET existing == DictGet(user_stats, username)
             h1 == [h  EXCEPT ![existing].issues_opened  = @ + h[stats].issues_opened]
             h2 == [h1 EXCEPT ![existing].issues_closed  = @ + h1[stats].issues_closed]
             h3 == [h2 EXCEPT ![existing].prs_opened     = @ + h2[stats].prs_opened]
             h4 == [h3 EXCEPT ![existing].prs_closed     = @ + h3[stats].prs_closed]
             h5 == [h4 EXCEPT ![existing].prs_merged     = @ + h4[stats].prs_merged]
             h6 == [h5 EXCEPT ![existing].commits        = @ + h5[stats].commits]
             h7 == [h6 EXCEPT ![existing].pr_comments    = @ + h6[stats].pr_comments]
             h8 == [h7 EXCEPT ![existing].issue_comments = @ + h7[stats].issue_comments]
         IN  [user_stats |-> user_stats, heap |-> h8]
    ELSE [user_stats |-> DictSet(user_stats, username, stats), heap |-> h]

(***************************************************************************)
(* models.py: Report                                                       *)
(***************************************************************************)
Report(year, start_date, end_date) ==
    [year |-> year, start_date |-> start_date, end_date |-> end_date, repos |-> <<>>]

\* The body of the inner loop of get_total_stats for one item (username, stats).
TotalItem(total_stats_, h, username, stats) ==
    LET isNew == ~DictHas(total_stats_, username)
        h0    == IF isNew THEN Append(h, UserStats(username)) ELSE h
        ts    == IF isNew THEN DictSet(total_stats_, username, Len(h0)) ELSE total_stats_
        total == DictGet(ts, username)
        h1 == [h0 EXCEPT ![total].issues_opened  = @ + h0[stats].issues_opened]
        h2 == [h1 EXCEPT ![total].issues_closed  = @ + h1[stats].issues_closed]
        h3 == [h2 EXCEPT ![total].prs_opened     = @ + h2[stats].prs_opened]
        h4 == [h3 EXCEPT ![total].prs_closed     = @ + h3[stats].prs_closed]
        h5 == [h4 EXCEPT ![total].prs_merged     = @ + h4[stats].prs_merged]
        h6 == [h5 EXCEPT ![total].commits        = @ + h5[stats].commits]
        h7 == [h6 EXCEPT ![total].pr_comments    = @ + h6[stats].pr_comments]
        h8 == [h7 EXCEPT ![total].issue_comments = @ + h7[stats].issue_comments]
    IN  [total_stats |-> ts, heap |-> h8]

\* for username, stats in repo.user_stats.items(), from item i on.
RECURSIVE TotalItems(_, _, _, _)
TotalItems(items, i, total_stats_, h) ==
    IF i > Len(items) THEN [total_stats |-> total_stats_, heap |-> h]
    ELSE \* r is the value of the step, computed once.
         CHOOSE result \in {TotalItems(items, i + 1, r.total_stats, r.heap) :
                                r \in {TotalItem(total_stats_, h, items[i].k, items[i].v)}} : TRUE

\* for repo in self.repos, from repository i on.
RECURSIVE TotalRepos(_, _, _, _)
TotalRepos(repos, i, total_stats_, h) ==
    IF i > Len(repos) THEN [total_stats |-> total_stats_, heap |-> h]
    ELSE CHOOSE result \in {TotalRepos(repos, i + 1, r.total_stats, r.heap) :
                                r \in {TotalItems(repos[i].user_stats, 1, total_stats_, h)}} : TRUE

\* A plausible bug: the totals of the last repository only.
get_total_stats_last(repos, h) ==
    IF repos = <<>> THEN [total_stats |-> <<>>, heap |-> h]
    ELSE TotalItems(repos[Len(repos)].user_stats, 1, <<>>, h)

\* A plausible bug: the stored objects themselves are returned and summed into.
get_total_stats_shared(repos, h) ==
    IF repos = <<>> THEN [total_stats |-> <<>>, heap |-> h]
    ELSE TotalRepos(SubSeq(repos, 2, Len(repos)), 1, repos[1].user_stats, h)

\* Report.get_total_stats() on the sequence repos, with the objects in heap h:
\* the mapping returned and the heap with the fresh UserStats objects.
get_total_stats(repos, h) == TotalRepos(repos, 1, <<>>, h)

(***************************************************************************)
(* Time and the data a forge holds.  An instant is an integer; the         *)
(* calendar day of instant t is t \div DayLen.                             *)
(***************************************************************************)
\* None, of a timestamp an item does not have (never closed, never merged).
Null == -1

\* A timestamp that does not parse (a malformed string).
Malformed == -2

\* A key that is present with the JSON value null; Null is a key that is absent.
JsonNull == -3

\* record.get(key) is None: the key is absent or null.
IsNone(x) == x = Null \/ x = JsonNull

\* start_date.date().isoformat(): the calendar day of an instant.
DateOf(t) == t \div DayLen

Min(a, b) == IF a <= b THEN a ELSE b

\* An issue or pull request as the forge holds it.
Item(type, id, repo, author, created_at, closed_at, merged_at, updated_at, comments) ==
    [type |-> type, id |-> id, repo |-> repo, author |-> author,
     created_at |-> created_at, closed_at |-> closed_at, merged_at |-> merged_at,
     updated_at |-> updated_at, comments |-> comments]

Comment(author, created_at) == [author |-> author, created_at |-> created_at, system |-> FALSE]

Commit(repo, author, time) == [repo |-> repo, author |-> author, time |-> time]

(***************************************************************************)
(* forges/github.py                                                        *)
(***************************************************************************)
\* params["per_page"] = 100
PerPage == 100

NoUrl == [endpoint |-> "none"]

\* The search query q and the URL that carries it (url and params as httpx
\* joins them; GitHub's next links carry the same query and the page).
GitHubSearch(endpoint, who, username, repo, type, qualifier, start_date, end_date, state, is_merged) ==
    [endpoint |-> endpoint,
     q |-> [who |-> who, user |-> username, repo |-> repo, type |-> type,
            qualifier |-> qualifier,
            from |-> DateOf(start_date), to |-> DateOf(end_date),
            state |-> state, is_merged |-> is_merged],
     per_page |-> PerPage, page |-> 1]

\* The request _count_issues makes.
GitHub_count_issues(repo, username, start_date, end_date, state, created) ==
    GitHubSearch("search/issues", "author", username, repo, "issue",
                 IF created THEN "created" ELSE "closed", start_date, end_date,
                 IF created THEN "" ELSE state, FALSE)

\* The request _count_pull_requests makes.
GitHub_count_pull_requests(repo, username, start_date, end_date, state, created) ==
    GitHubSearch("search/issues", "author", username, repo, "pr",
                 IF created THEN "created" ELSE "closed", start_date, end_date,
                 IF created THEN "" ELSE state, FALSE)

\* The request _count_merged_pull_requests makes.
GitHub_count_merged_pull_requests(repo, username, start_date, end_date) ==
    GitHubSearch("search/issues", "author", username, repo, "pr", "merged",
                 start_date, end_date, "", TRUE)

\* The request _count_commits makes.
GitHub_count_commits(repo, username, start_date, end_date) ==
    GitHubSearch("search/commits", "author", username, repo, "commit", "author-date",
                 start_date, end_date, "", FALSE)

\* The request _count_pr_comments makes.
GitHub_count_pr_comments(repo, username, start_date, end_date) ==
    GitHubSearch("search/issues", "commenter", username, repo, "pr", "updated",
                 start_date, end_date, "", FALSE)

\* The request _count_issue_comments makes.
GitHub_count_issue_comments(repo, username, start_date, end_date) ==
    GitHubSearch("search/issues", "commenter", username, repo, "issue", "updated",
                 start_date, end_date, "", FALSE)

\* The eight calls of get_repo_stats, in order: the request of call number metric.
GitHubCall(metric, j, username) ==
    CASE metric = 1 -> GitHub_count_issues(j.repo, username, j.start_date, j.end_date,
                                           "open", TRUE)
      [] metric = 2 -> GitHub_count_issues(j.repo, username, j.start_date, j.end_date,
                                           "closed", FALSE)
      [] metric = 3 -> GitHub_count_pull_requests(j.repo, username, j.start_date,
                                                  j.end_date, "open", TRUE)
      [] metric = 4 -> GitHub_count_pull_requests(j.repo, username, j.start_date,
                                                  j.end_date, "closed", FALSE)
      [] metric = 5 -> GitHub_count_merged_pull_requests(j.repo, username, j.start_date,
                                                         j.end_date)
      [] metric = 6 -> GitHub_count_commits(j.repo, username, j.start_date, j.end_date)
      [] metric = 7 -> GitHub_count_pr_comments(j.repo, username, j.start_date, j.end_date)
      [] OTHER      -> GitHub_count_issue_comments(j.repo, username, j.start_date,
                                                   j.end_date)

\* A plausible bug: the link followed is the one marked last.
get_next_page_url_last(link_header) ==
    IF \E i \in DOMAIN link_header : link_header[i][2] = "rel=\"last\""
    THEN link_header[CHOOSE i \in DOMAIN link_header : link_header[i][2] = "rel=\"last\""][1]
    ELSE NoUrl

\* for link in link_header.split(","), from link i on; a link is its parts
\* (link.split(";")): the URL and its parameters.
RECURSIVE NextLink(_, _)
NextLink(links, i) ==
    IF i > Len(links) THEN NoUrl
    ELSE IF Len(links[i]) = 2 /\ links[i][2] = "rel=\"next\"" THEN links[i][1]
    ELSE NextLink(links, i + 1)

\* GitHubClient._get_next_page_url
get_next_page_url(link_header) ==
    IF link_header = <<>> THEN NoUrl ELSE NextLink(link_header, 1)

\* items = response[0].get("items", []) if response else []; return len(items)
GitHubCount(response) ==
    IF response = <<>> THEN 0 ELSE Len(response[1].items)

\* What GitHub's search matches: the qualifiers of q against an item (or a commit).
GitHubInDays(t, q) == t >= 0 /\ q.from <= DateOf(t) /\ DateOf(t) <= q.to

GitHubMatchesItem(item, q) ==
    /\ q.type # "" => item.type = q.type
    /\ q.repo # "" => item.repo = q.repo
    /\ IF q.who = "author" THEN item.author = q.user
       ELSE \E i \in DOMAIN item.comments : item.comments[i].author = q.user
    /\ GitHubInDays(CASE q.qualifier = "created" -> item.created_at
                      [] q.qualifier = "closed"  -> item.closed_at
                      [] q.qualifier = "merged"  -> item.merged_at
                      [] OTHER                   -> item.updated_at, q)
    /\ q.state = "closed" => ~IsNone(item.closed_at)
    /\ q.is_merged => ~IsNone(item.merged_at)

GitHubMatchesCommit(commit, q) ==
    /\ commit.repo = q.repo
    /\ commit.author = q.user
    /\ GitHubInDays(commit.time, q)

\* The pages a forge makes of the sequence matches, size items a page.
PageCount(matches, size) == (Len(matches) + size - 1) \div size

PageOf(matches, size, page) ==
    SubSeq(matches, (page - 1) * size + 1, Min(page * size, Len(matches)))

\* GitHub's answer to GET url: the page of the search result and the Link
\* header (prev, next, last, first; no header when there is one page).
GitHubServe(db_, server_, url) ==
    LET matches == IF url.endpoint = "search/commits"
                   THEN SelectSeq(db_.commits, LAMBDA c : GitHubMatchesCommit(c, url.q))
                   ELSE SelectSeq(db_.items, LAMBDA i : GitHubMatchesItem(i, url.q))
        size  == Min(url.per_page, server_.page_size)
        pages == PageCount(matches, size)
        at(n) == [url EXCEPT !.page = n]
    IN  [data |-> [total_count |-> Len(matches),
                   items |-> PageOf(matches, size, url.page)],
         link |-> (IF url.page > 1 THEN << <<at(url.page - 1), "rel=\"prev\"">> >> ELSE <<>>)
                  \o (IF url.page < pages
                      THEN << <<at(url.page + 1), "rel=\"next\"">>,
                              <<at(pages), "rel=\"last\"">> >>
                      ELSE <<>>)
                  \o (IF url.page > 1 THEN << <<at(1), "rel=\"first\"">> >> ELSE <<>>)]

(***************************************************************************)
(* forges/gitlab.py                                                        *)
(***************************************************************************)
\* A note whose "author" key is missing.
NoAuthor == "<no author>"

\* quote(repo, safe=""): the repository path as one URL path segment.
Quote(repo) == [quoted |-> repo]

\* The query parameters GitLabClient sends; "" and Null are parameters left out
\* (a None value is dropped from params).  An instant is sent as isoformat().
GitLabParams == [author_username |-> "", created_after |-> Null, created_before |-> Null,
                 state |-> "", updated_after |-> Null,
                 author |-> "", since |-> Null, until |-> Null,
                 sort |-> "", order_by |-> ""]

GitLabUrl(endpoint, project_id, iid, params) ==
    [endpoint |-> endpoint, project_id |-> project_id, iid |-> iid, params |-> params,
     per_page |-> PerPage]

\* The request _count_issues makes.
GitLab_count_issues(project_id, username, start_date, end_date, created) ==
    GitLabUrl("issues", project_id, Null,
              [GitLabParams EXCEPT !.author_username = IF created THEN username ELSE "",
                                   !.created_after = IF created THEN start_date ELSE Null,
                                   !.created_before = IF created THEN end_date ELSE Null])

\* The request _count_merge_requests makes.
GitLab_count_merge_requests(project_id, username, start_date, end_date, created) ==
    GitLabUrl("merge_requests", project_id, Null,
              [GitLabParams EXCEPT !.author_username = IF created THEN username ELSE "",
                                   !.created_after = IF created THEN start_date ELSE Null,
                                   !.created_before = IF created THEN end_date ELSE Null,
                                   !.state = "all"])

\* The request _count_merged_merge_requests makes.
GitLab_count_merged_merge_requests(project_id, username, start_date, end_date) ==
    GitLabUrl("merge_requests", project_id, Null,
              [GitLabParams EXCEPT !.author_username = username, !.state = "merged"])

\* The request _count_commits makes.
GitLab_count_commits(project_id, username, start_date, end_date) ==
    GitLabUrl("repository/commits", project_id, Null,
              [GitLabParams EXCEPT !.author = username, !.since = start_date,
                                   !.until = end_date])

\* The first request _count_mr_comments makes: the merge requests to look into.
GitLab_count_mr_comments(project_id, username, start_date, end_date) ==
    GitLabUrl("merge_requests", project_id, Null,
              [GitLabParams EXCEPT !.state = "all", !.updated_after = start_date])

\* The first request _count_issue_comments makes: the issues to look into.
GitLab_count_issue_comments(project_id, username, start_date, end_date) ==
    GitLabUrl("issues", project_id, Null,
              [GitLabParams EXCEPT !.state = "all", !.updated_after = start_date])

\* notes_url and params_notes of one merge request or issue.
GitLabNotesUrl(endpoint, project_id, iid) ==
    GitLabUrl(endpoint, project_id, iid,
              [GitLabParams EXCEPT !.sort = "asc", !.order_by = "created_at"])

\* The eight calls of get_repo_stats, in order: the first request of call
\* number metric.
GitLabCall(metric, j, username) ==
    LET project_id == Quote(j.repo) IN
    CASE metric = 1 -> GitLab_count_issues(project_id, username, j.start_date,
                                           j.end_date, TRUE)
      [] metric = 2 -> GitLab_count_issues(project_id, username, j.start_date,
                                           j.end_date, FALSE)
      [] metric = 3 -> GitLab_count_merge_requests(project_id, username, j.start_date,
                                                   j.end_date, TRUE)
      [] metric = 4 -> GitLab_count_merge_requests(project_id, username, j.start_date,
                                                   j.end_date, FALSE)
      [] metric = 5 -> GitLab_count_merged_merge_requests(project_id, username,
                                                          j.start_date, j.end_date)
      [] metric = 6 -> GitLab_count_commits(project_id, username, j.start_date, j.end_date)
      [] metric = 7 -> GitLab_count_mr_comments(project_id, username, j.start_date,
                                                j.end_date)
      [] OTHER      -> GitLab_count_issue_comments(project_id, username, j.start_date,
                                                   j.end_date)

\* datetime.fromisoformat(x.replace("Z", "+00:00")) raises on None and on a
\* string that is no ISO timestamp; it gives the instant otherwise.
FromIsoFormatRaises(x) == IsNone(x) \/ x = Malformed

\* A plausible bug: an item without closed_at is judged by its creation.
GitLabClosedInRange_or_created(i, start_date, end_date) ==
    LET t == IF ~IsNone(i.closed_at) THEN i.closed_at ELSE i.created_at
    IN  start_date <= t /\ t <= end_date

\* i.get("closed_at") and start_date <= fromisoformat(i["closed_at"]) <= end_date
GitLabClosedInRange(i, start_date, end_date) ==
    ~IsNone(i.closed_at) /\ start_date <= i.closed_at /\ i.closed_at <= end_date

GitLabClosedRaises(i) == ~IsNone(i.closed_at) /\ FromIsoFormatRaises(i.closed_at)

\* mr.get("merged_at") and start_date <= fromisoformat(mr["merged_at"]) <= end_date
GitLabMergedInRange(mr, start_date, end_date) ==
    ~IsNone(mr.merged_at) /\ start_date <= mr.merged_at /\ mr.merged_at <= end_date

GitLabMergedRaises(mr) == ~IsNone(mr.merged_at) /\ FromIsoFormatRaises(mr.merged_at)

\* n["author"]["username"] == username and not n.get("system", False)
\* and start_date <= fromisoformat(n["created_at"]) <= end_date
GitLabUserNote(n, username, start_date, end_date) ==
    /\ n.author = username
    /\ ~n.system
    /\ start_date <= n.created_at /\ n.created_at <= end_date

GitLabUserNoteRaises(n, username) ==
    \/ n.author = NoAuthor
    \/ n.author = username /\ ~n.system /\ FromIsoFormatRaises(n.created_at)

\* What GitLab lists for a request: the collection the endpoint names, narrowed
\* by the parameters sent.
GitLabListed(item, type, url) ==
    LET p == url.params IN
    /\ item.type = type
    /\ item.repo = url.project_id.quoted
    /\ p.author_username # "" => item.author = p.author_username
    /\ p.created_after # Null => item.created_at >= p.created_after
    /\ p.created_before # Null => item.created_at <= p.created_before
    /\ p.updated_after # Null => item.updated_at >= p.updated_after
    /\ p.state = "merged" => ~IsNone(item.merged_at)

GitLabCollection(db_, url) ==
    CASE url.endpoint = "/users" ->
             SelectSeq(db_.users, LAMBDA u : u.username = url.params.username)
      [] url.endpoint \in {"/issues", "/merge_requests"} ->
             SelectSeq(db_.items,
                       LAMBDA i : /\ i.type = (IF url.endpoint = "/issues" THEN "issue"
                                               ELSE "pr")
                                  /\ \E n \in DOMAIN db_.users :
                                         /\ db_.users[n].id = url.params.author_id
                                         /\ db_.users[n].username = i.author
                                  /\ i.created_at >= url.params.created_after
                                  /\ i.created_at <= url.params.created_before)
      [] url.endpoint = "issues" ->
             SelectSeq(db_.items, LAMBDA i : GitLabListed(i, "issue", url))
      [] url.endpoint = "merge_requests" ->
             SelectSeq(db_.items, LAMBDA i : GitLabListed(i, "pr", url))
      [] url.endpoint = "repository/commits" ->
             SelectSeq(db_.commits,
                       LAMBDA c : /\ c.repo = url.project_id.quoted
                                  /\ c.author = url.params.author
                                  /\ url.params.since <= c.time
                                  /\ c.time <= url.params.until)
      [] OTHER ->
             LET type == IF url.endpoint = "issues/notes" THEN "issue" ELSE "pr"
                 of == SelectSeq(db_.items,
                                 LAMBDA i : /\ i.type = type
                                            /\ i.repo = url.project_id.quoted
                                            /\ i.id = url.iid)
             IN  IF of = <<>> THEN <<>> ELSE of[1].comments

\* How the server answers: "pages" (the pages of the list, as GitLab does),
\* "repeat" (the first page whatever page is asked for), "object" (a JSON
\* object that is not empty instead of a list) or "empty" (the object {}).
ServerMode(server_) == IF "mode" \in DOMAIN server_ THEN server_.mode ELSE "pages"

\* A JSON object that is not empty and has none of the keys the adapter
\* reads, such as {"message": "..."}.
NoKeys == Item("", Null, "", "", Null, Null, Null, Null, <<>>)

\* GitLab's answer to GET url with params["page"] = page: the page of the
\* list, and X-Total-Pages when the forge sends it.
GitLabServe(db_, server_, url, page) ==
    LET all  == GitLabCollection(db_, url)
        size == Min(url.per_page, server_.page_size)
        mode == ServerMode(server_)
    IN  [data |-> CASE mode = "repeat" -> PageOf(all, size, 1)
                    [] mode = "object" -> NoKeys
                    [] mode = "empty"  -> <<>>
                    [] OTHER           -> PageOf(all, size, page),
         is_list |-> mode \notin {"object", "empty"},
         total_pages |-> IF server_.total_pages_header THEN PageCount(all, size) ELSE Null]

(***************************************************************************)
(* forges/pagure.py                                                        *)
(***************************************************************************)
\* The query parameters PagureClient sends; "" and Null are parameters left
\* out.  created and closed are date ranges "from..to" of calendar days.
PagureParams == [status |-> "", created_from |-> Null, created_to |-> Null,
                 closed_from |-> Null, closed_to |-> Null]

PagureUrl(endpoint, name, id, params) ==
    [endpoint |-> endpoint, name |-> name, id |-> id, params |-> params]

\* The request _count_issues makes.
Pagure_count_issues(repo, username, start_date, end_date, created) ==
    PagureUrl("user/issues", username, Null,
              IF created
              THEN [PagureParams EXCEPT !.status = "all",
                                        !.created_from = DateOf(start_date),
                                        !.created_to = DateOf(end_date)]
              ELSE [PagureParams EXCEPT !.status = "all",
                                        !.closed_from = DateOf(start_date),
                                        !.closed_to = DateOf(end_date)])

\* The request _count_pull_requests makes.
Pagure_count_pull_requests(repo, username, start_date, end_date, created) ==
    PagureUrl("user/requests/filed", username, Null,
              IF created
              THEN [PagureParams EXCEPT !.status = "all",
                                        !.created_from = DateOf(start_date),
                                        !.created_to = DateOf(end_date)]
              ELSE [PagureParams EXCEPT !.status = "all",
                                        !.closed_from = DateOf(start_date),
                                        !.closed_to = DateOf(end_date)])

\* The request _count_merged_pull_requests makes.
Pagure_count_merged_pull_requests(repo, username, start_date, end_date) ==
    PagureUrl("user/requests/filed", username, Null,
              [PagureParams EXCEPT !.status = "Merged"])

\* The request _count_commits makes.
Pagure_count_commits(repo, username, start_date, end_date) ==
    PagureUrl("git/log", repo, Null, PagureParams)

\* The first request _count_pr_comments makes: the pull requests of the repository.
Pagure_count_pr_comments(repo, username, start_date, end_date) ==
    PagureUrl("pull-requests", repo, Null, [PagureParams EXCEPT !.status = "all"])

\* The first request _count_issue_comments makes: the issues of the repository.
Pagure_count_issue_comments(repo, username, start_date, end_date) ==
    PagureUrl("issues", repo, Null, [PagureParams EXCEPT !.status = "all"])

\* pr_url, issue_url: the request for one pull request or issue.
PagureItemUrl(endpoint, repo, id) == PagureUrl(endpoint, repo, id, PagureParams)

\* The eight calls of get_repo_stats, in order: the first request of call
\* number metric.
PagureCall(metric, j, username) ==
    CASE metric = 1 -> Pagure_count_issues(j.repo, username, j.start_date, j.end_date, TRUE)
      [] metric = 2 -> Pagure_count_issues(j.repo, username, j.start_date, j.end_date, FALSE)
      [] metric = 3 -> Pagure_count_pull_requests(j.repo, username, j.start_date,
                                                  j.end_date, TRUE)
      [] metric = 4 -> Pagure_count_pull_requests(j.repo, username, j.start_date,
                                                  j.end_date, FALSE)
      [] metric = 5 -> Pagure_count_merged_pull_requests(j.repo, username, j.start_date,
                                                         j.end_date)
      [] metric = 6 -> Pagure_count_commits(j.repo, username, j.start_date, j.end_date)
      [] metric = 7 -> Pagure_count_pr_comments(j.repo, username, j.start_date, j.end_date)
      [] OTHER      -> Pagure_count_issue_comments(j.repo, username, j.start_date,
                                                   j.end_date)

\* float(x) raises on a string that is no number and on None (a null value;
\* an absent key is read with the default 0, a time before every instant).
FloatRaises(x) == x = Malformed \/ x = JsonNull

\* i.get("project", {}).get("fullname", "") == repo
PagureInRepo(i, repo) == i.repo = repo

\* ... and pr.get("date_merged")
\* and start_date.timestamp() <= float(pr["date_merged"]) <= end_date.timestamp()
PagureMerged(pr, repo, start_date, end_date) ==
    /\ pr.repo = repo
    /\ ~IsNone(pr.merged_at)
    /\ start_date <= pr.merged_at /\ pr.merged_at <= end_date

PagureMergedRaises(pr, repo) ==
    pr.repo = repo /\ ~IsNone(pr.merged_at) /\ FloatRaises(pr.merged_at)

\* c.get("author", {}).get("name") == username
\* and start_date.timestamp() <= float(c.get("commit_time", 0)) <= end_date.timestamp()
PagureUserCommit(c, username, start_date, end_date) ==
    c.author = username /\ start_date <= c.time /\ c.time <= end_date

PagureUserCommitRaises(c, username) == c.author = username /\ FloatRaises(c.time)

\* pr.get("date_created") and float(pr.get("date_created", 0)) <= end_date.timestamp()
PagureDateFiltered(pr, end_date) == ~IsNone(pr.created_at) /\ pr.created_at <= end_date

PagureDateFilteredRaises(pr) == ~IsNone(pr.created_at) /\ FloatRaises(pr.created_at)

\* c.get("user", {}).get("name") == username
\* and start_date.timestamp() <= float(c.get("date_created", 0)) <= end_date.timestamp()
PagureUserComment(c, username, start_date, end_date) ==
    c.author = username /\ start_date <= c.created_at /\ c.created_at <= end_date

PagureUserCommentRaises(c, username) == c.author = username /\ FloatRaises(c.created_at)

\* What Pagure lists for a request.
PagureInDays(t, from, to) == from # Null => (t >= 0 /\ from <= DateOf(t) /\ DateOf(t) <= to)

PagureFiled(item, type, url) ==
    LET p == url.params IN
    /\ item.type = type
    /\ item.author = url.name
    /\ PagureInDays(item.created_at, p.created_from, p.created_to)
    /\ PagureInDays(item.closed_at, p.closed_from, p.closed_to)
    /\ p.status = "Merged" => ~IsNone(item.merged_at)

\* Pagure's answer to GET url: one JSON object; the list asked for is under
\* "issues", "requests", "commits" or "comments".
PagureServe(db_, url) ==
    CASE url.endpoint = "user/issues" ->
             SelectSeq(db_.items, LAMBDA i : PagureFiled(i, "issue", url))
      [] url.endpoint = "user/requests/filed" ->
             SelectSeq(db_.items, LAMBDA i : PagureFiled(i, "pr", url))
      [] url.endpoint = "git/log" ->
             SelectSeq(db_.commits, LAMBDA c : c.repo = url.name)
      [] url.endpoint = "pull-requests" ->
             SelectSeq(db_.items, LAMBDA i : i.type = "pr" /\ i.repo = url.name)
      [] url.endpoint = "issues" ->
             SelectSeq(db_.items, LAMBDA i : i.type = "issue" /\ i.repo = url.name)
      [] OTHER ->
             LET type == IF url.endpoint = "issue" THEN "issue" ELSE "pr"
                 of == SelectSeq(db_.items,
                                 LAMBDA i : i.type = type /\ i.repo = url.name
                                            /\ i.id = url.id)
             IN  IF of = <<>> THEN <<>> ELSE of[1].comments

(***************************************************************************)
(* get_repo_stats of the three adapters, one HTTP request a step.          *)
(***************************************************************************)
Forges == {"GitHub", "GitLab", "Pagure"}

\* The pages one _make_request is followed over: more than any list of the
\* model has.
MaxPage == MaxItems + 2

\* Request number n raises: client.get raises (no answer), or
\* response.raise_for_status() does (an HTTP error).
Fails(n) == n \in unanswered \/ n \in failing

\* self.api_call_count += 1 of GitHub's and Pagure's _make_request: the
\* statement after client.get, not reached when client.get raises.
Counted(n) == IF n \in unanswered THEN 0 ELSE 1

IdleFrame ==
    [ui |-> 0, user_stats |-> 0, metric |-> 0, phase |-> "", parents |-> <<>>, idx |-> 0,
     comment_count |-> 0, url |-> NoUrl, page |-> 0, results |-> <<>>]

NoCall == [wire |-> <<>>, results |-> <<>>, forge |-> ""]

\* No adapter object, no configuration, no generate run.
NoClient == [token |-> "", endpoint |-> ""]

NoConfig == [year |-> 0, now |-> 0, forges |-> <<>>, output_path |-> ""]

NoJob == [phase |-> "none", fi |-> 0, ri |-> 0]

NoOutput == [written |-> FALSE]

\* The first request of call number metric of get_repo_stats.
FirstUrl(metric, username) ==
    CASE forge = "GitHub" -> GitHubCall(metric, job, username)
      [] forge = "GitLab" -> GitLabCall(metric, job, username)
      [] OTHER            -> PagureCall(metric, job, username)

\* The locals when call number metric for usernames[ui] starts; user_stats is
\* the identity of the UserStats being filled.
CallFrame(ui, user_stats_, metric) ==
    [ui |-> ui, user_stats |-> user_stats_, metric |-> metric, phase |-> "list",
     parents |-> <<>>, idx |-> 0, comment_count |-> 0,
     url |-> FirstUrl(metric, job.usernames[ui]), page |-> 1, results |-> <<>>]

\* get_repo_stats is entered: repo_stats = RepoStats(forge=..., repo=repo), and
\* the loop over usernames starts (or ends at once, over no usernames).
GetRepoStats ==
    /\ status = "idle"
    /\ repo_stats' = RepoStats(forge, job.repo)
    /\ inserted' = <<>>
    /\ wire' = <<>>
    /\ IF job.usernames = <<>>
       THEN /\ status' = "returned"
            /\ frame' = IdleFrame
            /\ heap' = heap
       ELSE /\ status' = "running"
            /\ heap' = Append(heap, UserStats(job.usernames[1]))
            /\ frame' = CallFrame(1, Len(heap) + 1, 1)
    /\ UNCHANGED <<report, total_stats, calls, ops, forge, job, db, server, failing, unanswered,
                   api_call_count, sent, done_call>>
    /\ UNCHANGED <<clientVars, generateVars>>

\* A count call returns value: user_stats.<metric> = value; after the eighth,
\* repo_stats.add_user_stats(user_stats) and the next username, or return.
AfterMetric(value) ==
    LET h1 == [heap EXCEPT ![frame.user_stats][Fields[frame.metric]] = value]
        r  == add_user_stats(repo_stats.user_stats, h1, frame.user_stats)
    IN  IF frame.metric < Len(Fields)
        THEN /\ heap' = h1
             /\ frame' = CallFrame(frame.ui, frame.user_stats, frame.metric + 1)
             /\ UNCHANGED <<repo_stats, inserted, status>>
        ELSE /\ repo_stats' = [repo_stats EXCEPT !.user_stats = r.user_stats]
             /\ inserted' = Append(inserted, h1[frame.user_stats])
             /\ IF frame.ui < Len(job.usernames)
                THEN /\ heap' = Append(r.heap, UserStats(job.usernames[frame.ui + 1]))
                     /\ frame' = CallFrame(frame.ui + 1, Len(r.heap) + 1, 1)
                     /\ status' = status
                ELSE /\ heap' = r.heap
                     /\ frame' = IdleFrame
                     /\ status' = "returned"

\* An exception leaves get_repo_stats.
Raise ==
    /\ status' = "raised"
    /\ frame' = IdleFrame
    /\ UNCHANGED <<heap, repo_stats, inserted>>

\* The count call in progress goes on with locals f.
Continue(f) ==
    /\ frame' = f
    /\ UNCHANGED <<heap, repo_stats, inserted, status>>

\* _make_request returned results to the caller that made the requests w.
Returned(w, results) ==
    /\ wire' = <<>>
    /\ done_call' = [wire |-> w, results |-> results, forge |-> forge]

\* One pass of the loop of GitHubClient._make_request, and what follows when
\* the loop ends: the count function returns len(items), or 0 on an exception.
GitHubGet ==
    /\ status = "running"
    /\ forge = "GitHub"
    /\ sent' = sent + 1
    /\ api_call_count' = api_call_count + Counted(sent + 1)
    /\ LET response == GitHubServe(db, server, frame.url)
           results  == Append(frame.results, response.data)
           url      == get_next_page_url(response.link)
       IN  IF Fails(sent + 1)
           THEN /\ wire' = <<>>
                /\ done_call' = done_call
                /\ AfterMetric(0)
           ELSE IF url.endpoint # "none"
           THEN /\ wire' = Append(wire, frame.url)
                /\ done_call' = done_call
                /\ Continue([frame EXCEPT !.url = url, !.results = results,
                                          !.page = @ + 1])
           ELSE /\ Returned(Append(wire, frame.url), results)
                /\ AfterMetric(GitHubCount(results))
    /\ counted' = counted + 1
    /\ UNCHANGED <<report, total_stats, calls, ops, forge, job, db, server, failing, unanswered>>
    /\ UNCHANGED <<client, found, generateVars>>

\* What the GitLab count functions do with the list _make_request returned.
GitLabReturned(results) ==
    LET m == frame.metric
        username == job.usernames[frame.ui]
        notes == IF m = 7 THEN "merge_requests/notes" ELSE "issues/notes"
    IN  CASE m \in {1, 3, 6} -> AfterMetric(Len(results))
          [] m \in {2, 4} ->
                 IF \E i \in DOMAIN results : GitLabClosedRaises(results[i]) THEN Raise
                 ELSE AfterMetric(Len(SelectSeq(results,
                          LAMBDA i : GitLabClosedInRange(i, job.start_date, job.end_date))))
          [] m = 5 ->
                 IF \E i \in DOMAIN results : GitLabMergedRaises(results[i]) THEN Raise
                 ELSE AfterMetric(Len(SelectSeq(results,
                          LAMBDA mr : GitLabMergedInRange(mr, job.start_date, job.end_date))))
          [] OTHER ->
                 IF frame.phase = "list"
                 THEN IF results = <<>> THEN AfterMetric(0)
                      ELSE IF results[1].id = Null THEN Raise
                      ELSE Continue([frame EXCEPT
                               !.phase = "notes", !.parents = results, !.idx = 1,
                               !.comment_count = 0,
                               !.url = GitLabNotesUrl(notes, Quote(job.repo), results[1].id),
                               !.page = 1, !.results = <<>>])
                 ELSE IF \E i \in DOMAIN results : GitLabUserNoteRaises(results[i], username)
                      THEN Raise
                      ELSE LET count == frame.comment_count + Len(SelectSeq(results,
                                   LAMBDA n : GitLabUserNote(n, username, job.start_date,
                                                             job.end_date)))
                           IN  IF frame.idx = Len(frame.parents) THEN AfterMetric(count)
                               ELSE IF frame.parents[frame.idx + 1].id = Null THEN Raise
                               ELSE Continue([frame EXCEPT
                                        !.idx = @ + 1, !.comment_count = count,
                                        !.url = GitLabNotesUrl(notes, Quote(job.repo),
                                                    frame.parents[frame.idx + 1].id),
                                        !.page = 1, !.results = <<>>])

\* A plausible bug: X-Total-Pages is not looked at.
GitLabLastPage_ignored(total_pages, page) == FALSE

\* A plausible bug: the comparison is one off, so that page N + 1 is asked for.
GitLabLastPage_off_by_one(total_pages, page) == total_pages # Null /\ page > total_pages

\* total_pages and page >= int(total_pages)
GitLabLastPage(total_pages, page) == total_pages # Null /\ page >= total_pages

\* One pass of the loop of GitLabClient._make_request, and what follows when
\* the loop ends.  The call count is not touched; an exception is not caught.
GitLabGet ==
    /\ status = "running"
    /\ forge = "GitLab"
    /\ frame.page <= MaxPage
    /\ sent' = sent + 1
    /\ api_call_count' = api_call_count
    /\ LET response == GitLabServe(db, server, frame.url, frame.page)
           w == Append(wire, [url |-> frame.url, page |-> frame.page])
           results == IF response.is_list THEN frame.results \o response.data
                      ELSE Append(frame.results, response.data)
       IN  IF Fails(sent + 1)
           THEN /\ wire' = <<>>
                /\ done_call' = done_call
                /\ Raise
           ELSE IF response.data = <<>>
           THEN /\ Returned(w, frame.results)
                /\ GitLabReturned(frame.results)
           ELSE IF ~response.is_list \/ GitLabLastPage(response.total_pages, frame.page)
           THEN /\ Returned(w, results)
                /\ GitLabReturned(results)
           ELSE /\ wire' = w
                /\ done_call' = done_call
                /\ Continue([frame EXCEPT !.results = results, !.page = @ + 1])
    /\ counted' = counted + 1
    /\ UNCHANGED <<report, total_stats, calls, ops, forge, job, db, server, failing, unanswered>>
    /\ UNCHANGED <<client, found, generateVars>>

\* What the Pagure count functions do with the object _make_request returned
\* (data is the list they read from it); any exception makes the count 0.
PagureReturned(data) ==
    LET m == frame.metric
        username == job.usernames[frame.ui]
        one == IF m = 7 THEN "pull-request" ELSE "issue"
    IN  CASE m \in {1, 2, 3, 4} ->
                 AfterMetric(Len(SelectSeq(data, LAMBDA i : PagureInRepo(i, job.repo))))
          [] m = 5 ->
                 IF \E i \in DOMAIN data : PagureMergedRaises(data[i], job.repo)
                 THEN AfterMetric(0)
                 ELSE AfterMetric(Len(SelectSeq(data,
                          LAMBDA pr : PagureMerged(pr, job.repo, job.start_date,
                                                   job.end_date))))
          [] m = 6 ->
                 IF \E i \in DOMAIN data : PagureUserCommitRaises(data[i], username)
                 THEN AfterMetric(0)
                 ELSE AfterMetric(Len(SelectSeq(data,
                          LAMBDA c : PagureUserCommit(c, username, job.start_date,
                                                      job.end_date))))
          [] OTHER ->
                 IF frame.phase = "list"
                 THEN LET filtered == SelectSeq(data,
                                          LAMBDA pr : PagureDateFiltered(pr, job.end_date))
                      IN  IF \E i \in DOMAIN data : PagureDateFilteredRaises(data[i])
                          THEN AfterMetric(0)
                          ELSE IF filtered = <<>> THEN AfterMetric(0)
                          ELSE IF filtered[1].id = Null THEN AfterMetric(0)
                          ELSE Continue([frame EXCEPT
                                   !.phase = "notes", !.parents = filtered, !.idx = 1,
                                   !.comment_count = 0,
                                   !.url = PagureItemUrl(one, job.repo, filtered[1].id)])
                 ELSE IF \E i \in DOMAIN data : PagureUserCommentRaises(data[i], username)
                      THEN AfterMetric(0)
                      ELSE LET count == frame.comment_count + Len(SelectSeq(data,
                                   LAMBDA c : PagureUserComment(c, username, job.start_date,
                                                                job.end_date)))
                           IN  IF frame.idx = Len(frame.parents) THEN AfterMetric(count)
                               ELSE IF frame.parents[frame.idx + 1].id = Null
                               THEN AfterMetric(0)
                               ELSE Continue([frame EXCEPT
                                        !.idx = @ + 1, !.comment_count = count,
                                        !.url = PagureItemUrl(one, job.repo,
                                                    frame.parents[frame.idx + 1].id)])

\* PagureClient._make_request: one request, and what the count function in
\* progress does with the answer.
PagureGet ==
    /\ status = "running"
    /\ forge = "Pagure"
    /\ sent' = sent + 1
    /\ api_call_count' = api_call_count + Counted(sent + 1)
    /\ LET data == PagureServe(db, frame.url)
       IN  IF Fails(sent + 1)
           THEN /\ wire' = <<>>
                /\ done_call' = done_call
                /\ AfterMetric(0)
           ELSE /\ Returned(<<frame.url>>, data)
                /\ PagureReturned(data)
    /\ counted' = counted + 1
    /\ UNCHANGED <<report, total_stats, calls, ops, forge, job, db, server, failing, unanswered>>
    /\ UNCHANGED <<client, found, generateVars>>

NextFetch ==
    \/ GetRepoStats
    \/ GitHubGet
    \/ GitLabGet
    \/ PagureGet

(***************************************************************************)
(* The calls of get_repo_stats that are checked: the job, what the forge   *)
(* holds and how it pages.                                                 *)
(***************************************************************************)
Repo == "org/repo"

OtherRepo == "org/other"

Max(a, b) == IF a >= b THEN a ELSE b

Range(start, end) == [start_date |-> start, end_date |-> end]

\* The ranges get_repo_stats is called with: from the first instant of a day
\* to the last instant of a later day; the range of cli.py for a past year
\* (start at 00:00:00 of its day, end at 23:59:59, before its day is over);
\* and a range that starts and ends within its days (end_date = now).
Ranges == {Range(DayLen, 3 * DayLen - 1), Range(DayLen, 3 * DayLen - 2),
           Range(DayLen + 1, 3 * DayLen - 2)}

\* The instants at the two bounds of range r and one unit outside them.
Edge(r) == {r.start_date - 1, r.start_date, r.end_date, r.end_date + 1}

\* The forge updates updated_at on every event of the item.
LastUpdate(created, closed, merged, comments) ==
    LET last == IF comments = <<>> THEN created ELSE comments[Len(comments)].created_at
    IN  Max(Max(created, closed), Max(merged, last))

MakeItem(type, id, repo, author, created, closed, merged, comments) ==
    Item(type, id, repo, author, created, closed, merged,
         LastUpdate(created, closed, merged, comments), comments)

\* One issue or pull request of alice's whose events fall on the edges of r.
BoundaryItems(r) ==
    UNION { UNION { UNION {
        { MakeItem(type, 1, Repo, "alice", c, cl, IF mg THEN cl ELSE Null, cm) :
              cm \in {<<>>} \cup {<<Comment("alice", t)>> : t \in {u \in Edge(r) : u >= c}} }
        : mg \in IF type = "pr" /\ cl # Null THEN BOOLEAN ELSE {FALSE} }
        : cl \in {Null} \cup {u \in Edge(r) : u >= c} }
        : type \in {"issue", "pr"}, c \in Edge(r) }

BoundaryDbs(r) ==
    {[items |-> <<i>>, commits |-> <<>>] : i \in BoundaryItems(r)}
    \cup {[items |-> <<>>, commits |-> <<Commit(Repo, "alice", t)>>] : t \in Edge(r)}

\* The sub-sequences of seq.
SubSeqs(seq) ==
    {SelectSeq(seq, LAMBDA x : \E i \in DOMAIN seq : seq[i] = x /\ keep[i]) :
         keep \in [DOMAIN seq -> BOOLEAN]}

\* Items of alice's, all their events within range r: an issue opened and
\* closed (with a comment of hers), an issue still open, a pull request
\* merged, and an issue of another repository.
ScenarioItems(r) ==
    << MakeItem("issue", 1, Repo, "alice", r.start_date, r.end_date, Null,
                <<Comment("alice", r.start_date)>>),
       MakeItem("issue", 2, Repo, "alice", r.start_date, Null, Null, <<>>),
       MakeItem("pr", 3, Repo, "alice", r.start_date, r.end_date, r.end_date, <<>>),
       MakeItem("issue", 4, OtherRepo, "alice", r.start_date, r.end_date, Null, <<>>) >>

ScenarioDbs(r) ==
    {[items |-> i, commits |-> c] :
         i \in SubSeqs(ScenarioItems(r)),
         c \in SubSeqs(<<Commit(Repo, "alice", r.end_date)>>)}

\* k issues of alice's, opened and closed within r, each with a comment of hers.
PagingDb(r, k) ==
    [items |-> [id \in 1..k |->
                    MakeItem("issue", id, Repo, "alice", r.start_date, r.end_date, Null,
                             <<Comment("alice", r.end_date)>>)],
     commits |-> <<>>]

\* The endpoint argument's default in the __init__ of the adapter of forge_.
DefaultEndpoint(forge_) ==
    CASE forge_ = "GitHub" -> "https://api.github.com"
      [] forge_ = "GitLab" -> "https://gitlab.com/api/v4"
      [] OTHER             -> "https://pagure.io/api/0"

\* endpoint.rstrip("/"), on the endpoints of the model.
Rstrip(endpoint) ==
    IF endpoint = "https://forge.example/api/" THEN "https://forge.example/api"
    ELSE endpoint

(***************************************************************************)
(* cli.py: the range of a report.  Instant 0 is the first instant of the   *)
(* year FirstYear.                                                         *)
(***************************************************************************)
\* The first year config.py accepts.
FirstYear == 2000

YearLen == YearDays * DayLen

\* end_date.year
YearOf(t) == FirstYear + (t \div YearLen)

\* datetime(year, 1, 1, tzinfo=timezone.utc)
YearStart(year) == (year - FirstYear) * YearLen

\* datetime(year, 12, 31, 23, 59, 59, tzinfo=timezone.utc): within the last
\* day of the year, one instant before the year is over.
YearEnd(year) == YearStart(year + 1) - 2

\* A plausible bug: the range always ends with the year.
ReportRange_year_end(year, now) == Range(YearStart(year), YearEnd(year))

\* start_date and end_date of generate (and of enumerate) for config.year and
\* datetime.now(timezone.utc).
ReportRange(year, now) ==
    Range(YearStart(year), IF YearOf(now) # year THEN YearEnd(year) ELSE now)

\* The Report of a run for the year FirstYear at its first instant, before
\* any job.
FirstReport ==
    Report(FirstYear, ReportRange(FirstYear, YearStart(FirstYear)).start_date,
           ReportRange(FirstYear, YearStart(FirstYear)).end_date)

\* The fields __init__ sets besides api_call_count = 0.
NewClient(token, endpoint) == [token |-> token, endpoint |-> Rstrip(endpoint)]

\* A client of forge_ has been constructed, and get_repo_stats(j.repo,
\* j.usernames, j.start_date, j.end_date) is about to be called on it; the forge
\* will answer the requests numbered in failing_ with an HTTP error and will
\* not answer those numbered in unanswered_.
FetchInitFailures(forge_, j, db_, server_, failing_, unanswered_) ==
    /\ heap = <<>>
    /\ repo_stats = RepoStats(forge_, j.repo)
    /\ report = FirstReport
    /\ total_stats = <<>>
    /\ calls = 0
    /\ inserted = <<>>
    /\ ops = 0
    /\ forge = forge_
    /\ job = j
    /\ db = db_
    /\ server = server_
    /\ failing = failing_
    /\ unanswered = unanswered_
    /\ status = "idle"
    /\ frame = IdleFrame
    /\ api_call_count = 0
    /\ sent = 0
    /\ wire = <<>>
    /\ done_call = NoCall
    /\ client = NewClient("token", DefaultEndpoint(forge_))
    /\ counted = 0
    /\ found = {}
    /\ config = NoConfig
    /\ pc = NoJob
    /\ errors = <<>>
    /\ output = NoOutput

\* The same, with a forge that answers every request, if with an error.
FetchInitFailing(forge_, j, db_, server_, failing_) ==
    FetchInitFailures(forge_, j, db_, server_, failing_, {})

\* The same, with a forge that answers every request.
FetchInit(forge_, j, db_, server_) == FetchInitFailing(forge_, j, db_, server_, {})

Job(usernames, r) ==
    [repo |-> Repo, usernames |-> usernames, start_date |-> r.start_date,
     end_date |-> r.end_date]

InitBoundary ==
    \E forge_ \in Forges, r \in Ranges :
        \E db_ \in BoundaryDbs(r) :
            FetchInit(forge_, Job(<<"alice">>, r), db_,
                      [page_size |-> MaxPageSize, total_pages_header |-> TRUE])

InitScenario ==
    \E forge_ \in Forges, r \in Ranges,
       usernames \in {<<"alice", "bob">>, <<"bob", "alice">>} :
        \E db_ \in ScenarioDbs(r) :
            FetchInit(forge_, Job(usernames, r), db_,
                      [page_size |-> MaxPageSize, total_pages_header |-> TRUE])

InitPaging ==
    \E forge_ \in Forges, k \in 0..MaxItems, size \in 1..MaxPageSize, header \in BOOLEAN :
        FetchInit(forge_, Job(<<"alice">>, Range(DayLen, 3 * DayLen - 1)),
                  PagingDb(Range(DayLen, 3 * DayLen - 1), k),
                  [page_size |-> size, total_pages_header |-> header])

SpecBoundary == InitBoundary /\ [][NextFetch]_vars

SpecScenario == InitScenario /\ [][NextFetch]_vars

SpecPaging == InitPaging /\ [][NextFetch]_vars

\* k comments of alice's within range r, in time order.
CommentsWithin(r, k) ==
    [i \in 1..k |-> Comment("alice", Min(r.start_date + i - 1, r.end_date))]

\* An issue or pull request of bob's with k comments of alice's within r, and,
\* when later, a comment of bob's on a day after the range; with it, when
\* second, another item of the same type with one comment of alice's within r.
CommentDbs(r) ==
    {[items |-> << MakeItem(type, 1, Repo, "bob", r.start_date, Null, Null,
                            CommentsWithin(r, k)
                            \o (IF later THEN <<Comment("bob", r.end_date + DayLen)>>
                                ELSE <<>>)) >>
                   \o (IF second
                       THEN << MakeItem(type, 2, Repo, "bob", r.start_date, Null, Null,
                                        CommentsWithin(r, 1)) >>
                       ELSE <<>>),
      commits |-> <<>>] :
         type \in {"issue", "pr"}, k \in 1..MaxComments, later \in BOOLEAN,
         second \in BOOLEAN}

InitComments ==
    \E forge_ \in Forges, r \in Ranges :
        \E db_ \in CommentDbs(r) :
            FetchInit(forge_, Job(<<"alice">>, r), db_,
                      [page_size |-> MaxPageSize, total_pages_header |-> TRUE])

SpecComments == InitComments /\ [][NextFetch]_vars

(***************************************************************************)
(* A caller that keeps one adapter object: it calls get_repo_stats again   *)
(* and resets the call counter between calls.                              *)
(***************************************************************************)
\* A plausible bug: the reset runs __init__ again without the token.
ResetApiCallCount_reinit ==
    /\ status \in {"idle", "returned", "raised"}
    /\ ops < MaxOps
    /\ api_call_count' = 0
    /\ counted' = 0
    /\ client' = NewClient("", client.endpoint)
    /\ ops' = ops + 1
    /\ UNCHANGED <<heap, repo_stats, report, total_stats, calls, inserted, forge, job, db,
                   server, failing, unanswered, status, frame, sent, wire, done_call, found,
                   generateVars>>

\* ForgeClient.reset_api_call_count, called between two operations.
ResetApiCallCount ==
    /\ status \in {"idle", "returned", "raised"}
    /\ ops < MaxOps
    /\ api_call_count' = 0
    /\ counted' = 0
    /\ ops' = ops + 1
    /\ UNCHANGED <<heap, repo_stats, report, total_stats, calls, inserted, forge, job, db,
                   server, failing, unanswered, status, frame, sent, wire, done_call, client, found,
                   generateVars>>

\* The caller has the result (or the exception) of get_repo_stats and is
\* about to call it again on the same object.
CallAgain ==
    /\ status \in {"returned", "raised"}
    /\ ops < MaxOps
    /\ status' = "idle"
    /\ ops' = ops + 1
    /\ UNCHANGED <<heap, repo_stats, report, total_stats, calls, inserted, forge, job, db,
                   server, failing, unanswered, frame, api_call_count, sent, wire, done_call,
                   clientVars, generateVars>>

NextClient ==
    \/ GetRepoStats
    \/ GitHubGet
    \/ GitLabGet
    \/ PagureGet
    \/ ResetApiCallCount
    \/ CallAgain

\* One user, the items of the scenario, on each adapter; every request is
\* answered, or the first is answered with an HTTP error or not answered.
InitClient ==
    \E forge_ \in Forges, k \in 0..2, fails \in {<<{}, {}>>, <<{1}, {}>>, <<{}, {1}>>} :
        FetchInitFailures(forge_, Job(<<"alice">>, Range(DayLen, 3 * DayLen - 2)),
                          [items |-> SubSeq(ScenarioItems(Range(DayLen, 3 * DayLen - 2)),
                                            1, k),
                           commits |-> <<>>],
                          [page_size |-> MaxPageSize, total_pages_header |-> TRUE],
                          fails[1], fails[2])

SpecClient == InitClient /\ [][NextClient]_vars

\* The scenario with all its items and a commit; one of the first
\* MaxRequests requests is answered with an HTTP error or is not answered,
\* or none is.
InitFailure ==
    \E forge_ \in Forges, usernames \in {<<"alice", "bob">>, <<"bob", "alice">>},
       fails \in {{}} \cup {{n} : n \in 1..MaxRequests}, answered \in BOOLEAN :
        FetchInitFailures(forge_, Job(usernames, Range(DayLen, 3 * DayLen - 2)),
                          [items |-> ScenarioItems(Range(DayLen, 3 * DayLen - 2)),
                           commits |-> <<Commit(Repo, "alice", DayLen)>>],
                          [page_size |-> MaxPageSize, total_pages_header |-> TRUE],
                          IF answered THEN fails ELSE {},
                          IF answered THEN {} ELSE fails)

SpecFailure == InitFailure /\ [][NextFetch]_vars

\* One record with a missing, null or malformed field: a close, merge,
\* creation or comment time that does not parse or is null, an item without
\* id, a note without author, a commit whose time does not parse or is null.
MalformedItems(r) ==
    { MakeItem("issue", 5, Repo, "alice", r.start_date, Malformed, Null, <<>>),
      MakeItem("pr", 5, Repo, "alice", r.start_date, r.end_date, Malformed, <<>>),
      MakeItem("pr", 5, Repo, "alice", Malformed, Null, Null, <<>>),
      MakeItem("pr", Null, Repo, "bob", r.start_date, Null, Null, <<>>),
      MakeItem("issue", Null, Repo, "bob", r.start_date, Null, Null, <<>>),
      MakeItem("pr", 5, Repo, "bob", r.start_date, Null, Null,
               <<Comment(NoAuthor, r.start_date)>>),
      MakeItem("issue", 5, Repo, "bob", r.start_date, Null, Null,
               <<Comment("alice", Malformed)>>),
      MakeItem("issue", 5, Repo, "bob", r.start_date, Null, Null,
               <<Comment("alice", JsonNull)>>),
      MakeItem("pr", 5, Repo, "bob", r.start_date, Null, Null,
               <<Comment("alice", r.start_date), Comment("alice", JsonNull)>>),
      MakeItem("pr", 5, Repo, "alice", r.start_date, JsonNull, JsonNull, <<>>) }

\* Well-formed records of alice's within r: an issue closed, with a comment
\* of hers, and a pull request merged, with a comment of hers.
WellFormedItems(r) ==
    << MakeItem("issue", 1, Repo, "alice", r.start_date, r.end_date, Null,
                <<Comment("alice", r.start_date)>>),
       MakeItem("pr", 3, Repo, "alice", r.start_date, r.end_date, r.end_date,
                <<Comment("alice", r.end_date)>>) >>

\* The well-formed records and one malformed record, before or after them.
MalformedDbs(r) ==
    UNION { { [items |-> <<i>> \o WellFormedItems(r),
               commits |-> <<Commit(Repo, "alice", r.start_date)>>],
              [items |-> WellFormedItems(r) \o <<i>>,
               commits |-> <<Commit(Repo, "alice", r.start_date)>>] }
            : i \in MalformedItems(r) }
    \cup UNION { { [items |-> WellFormedItems(r),
                     commits |-> <<Commit(Repo, "alice", t),
                                   Commit(Repo, "alice", r.start_date)>>],
                    [items |-> WellFormedItems(r),
                     commits |-> <<Commit(Repo, "alice", r.start_date),
                                   Commit(Repo, "alice", t)>>] }
                  : t \in {Malformed, JsonNull, Null} }

InitMalformed ==
    \E forge_ \in Forges, r \in Ranges :
        \E db_ \in MalformedDbs(r) :
            FetchInit(forge_, Job(<<"alice">>, r), db_,
                      [page_size |-> MaxItems, total_pages_header |-> TRUE])

SpecMalformed == InitMalformed /\ [][NextFetch]_vars

(***************************************************************************)
(* cli.py: the generate command.                                           *)
(***************************************************************************)
\* forge_config.name.lower(), on the names of the model.
Lower(name) ==
    CASE name = "GitHub" -> "github"
      [] name = "GitLab" -> "gitlab"
      [] name = "Pagure" -> "pagure"
      [] name = "Bitbucket" -> "bitbucket"
      [] OTHER -> name

\* forge_clients, with each class named by its get_forge_name().
ForgeClients ==
    << [k |-> "github", v |-> "GitHub"], [k |-> "gitlab", v |-> "GitLab"],
       [k |-> "pagure", v |-> "Pagure"] >>

ForgeConfig(name, token, endpoint, usernames, repos) ==
    [name |-> name, token |-> token, endpoint |-> endpoint, usernames |-> usernames,
     repos |-> repos]

At(phase, fi, ri) == [phase |-> phase, fi |-> fi, ri |-> ri, first |-> sent + 1]

\* start_date, end_date and report = Report(year=config.year, ...).
Generate ==
    /\ pc.phase = "start"
    /\ report' = Report(config.year, ReportRange(config.year, config.now).start_date,
                        ReportRange(config.year, config.now).end_date)
    /\ pc' = At("forge", 1, 0)
    /\ UNCHANGED <<heap, repo_stats, total_stats, calls, inserted, ops, forge, job, db,
                   server, failing, unanswered, status, frame, api_call_count, sent, wire,
                   done_call,
                   clientVars, config, errors, output>>

\* for forge_config in config.forges: an unknown forge is skipped, for a
\* known one the client is constructed; after the last, the fetch loop is over.
NextForge ==
    /\ pc.phase = "forge"
    /\ IF pc.fi > Len(config.forges)
       THEN /\ pc' = At("render", pc.fi, 0)
            /\ UNCHANGED <<forge, client, api_call_count, counted>>
       ELSE LET forge_config == config.forges[pc.fi]
                forge_name == Lower(forge_config.name)
            IN  IF ~DictHas(ForgeClients, forge_name)
                THEN /\ pc' = At("forge", pc.fi + 1, 0)
                     /\ UNCHANGED <<forge, client, api_call_count, counted>>
                ELSE /\ forge' = DictGet(ForgeClients, forge_name)
                     /\ client' = NewClient(forge_config.token,
                                            IF forge_config.endpoint # ""
                                            THEN forge_config.endpoint
                                            ELSE DefaultEndpoint(
                                                     DictGet(ForgeClients, forge_name)))
                     /\ api_call_count' = 0
                     /\ counted' = 0
                     /\ pc' = At("repo", pc.fi, 1)
    /\ UNCHANGED <<heap, repo_stats, report, total_stats, calls, inserted, ops, job, db,
                   server, failing, unanswered, status, frame, sent, wire, done_call, found, config,
                   errors, output>>

\* for repo in forge_config.repos: client.get_repo_stats(repo,
\* forge_config.usernames, start_date, end_date) is called.
NextRepo ==
    /\ pc.phase = "repo"
    /\ IF pc.ri > Len(config.forges[pc.fi].repos)
       THEN /\ pc' = At("forge", pc.fi + 1, 0)
            /\ UNCHANGED <<job, status>>
       ELSE /\ job' = [repo |-> config.forges[pc.fi].repos[pc.ri],
                       usernames |-> config.forges[pc.fi].usernames,
                       start_date |-> report.start_date,
                       end_date |-> report.end_date]
            /\ status' = "idle"
            /\ pc' = At("fetch", pc.fi, pc.ri)
    /\ UNCHANGED <<heap, repo_stats, report, total_stats, calls, inserted, ops, forge, db,
                   server, failing, unanswered, frame, api_call_count, sent, wire, done_call,
                   clientVars, config, errors, output>>

\* A plausible bug: the RepoStats is put first.
JobDone_prepend ==
    /\ pc.phase = "fetch"
    /\ status = "returned"
    /\ report' = [report EXCEPT !.repos = <<repo_stats>> \o @]
    /\ status' = "none"
    /\ pc' = At("repo", pc.fi, pc.ri + 1)
    /\ UNCHANGED <<heap, repo_stats, total_stats, calls, inserted, ops, forge, job, db,
                   server, failing, unanswered, frame, api_call_count, sent, wire, done_call,
                   clientVars, config, errors, output>>

\* get_repo_stats returned: report.repos.append(repo_stats).
JobDone ==
    /\ pc.phase = "fetch"
    /\ status = "returned"
    /\ report' = [report EXCEPT !.repos = Append(@, repo_stats)]
    /\ status' = "none"
    /\ pc' = At("repo", pc.fi, pc.ri + 1)
    /\ UNCHANGED <<heap, repo_stats, total_stats, calls, inserted, ops, forge, job, db,
                   server, failing, unanswered, frame, api_call_count, sent, wire, done_call,
                   clientVars, config, errors, output>>

\* A plausible bug: the exception is not caught and ends the run.
JobFailed_uncaught ==
    /\ pc.phase = "fetch"
    /\ status = "raised"
    /\ status' = "none"
    /\ pc' = At("exit", pc.fi, pc.ri)
    /\ UNCHANGED <<heap, repo_stats, report, total_stats, calls, inserted, ops, forge, job,
                   db, server, failing, unanswered, frame, api_call_count, sent, wire, done_call,
                   clientVars, config, errors, output>>

\* get_repo_stats raised: except Exception as e, the error is printed for
\* forge_config.name/repo and the loop goes on.
JobFailed ==
    /\ pc.phase = "fetch"
    /\ status = "raised"
    /\ errors' = Append(errors, <<config.forges[pc.fi].name, job.repo>>)
    /\ status' = "none"
    /\ pc' = At("repo", pc.fi, pc.ri + 1)
    /\ UNCHANGED <<heap, repo_stats, report, total_stats, calls, inserted, ops, forge, job,
                   db, server, failing, unanswered, frame, api_call_count, sent, wire, done_call,
                   clientVars, config, output>>

\* _build_repo_stats_table(repo_stats): one row per key of user_stats, with
\* the username and its eight counters (the rows as a set: they are written
\* sorted by username).
RepoStatsRows(user_stats, h) ==
    {<<user_stats[i].k, Counters(h[user_stats[i].v])>> : i \in DOMAIN user_stats}

\* output_path: a path that can be written, and one in a directory that
\* does not exist.
OutputPath == "report.md"

MissingDirPath == "missing/report.md"

\* open(output_path, "w") succeeds.
CanOpen(output_path) == output_path # MissingDirPath

\* generate_markdown_report(report, output_path): the report is rendered,
\* with the totals of report.get_total_stats() and, for each repository, its
\* table or the line that says there was no activity, and written.  When
\* open() raises, after the rendering, nothing is written and generate ends
\* with typer.Exit(1).
Render ==
    /\ pc.phase = "render"
    /\ LET r == get_total_stats(report.repos, heap)
       IN  /\ heap' = r.heap
           /\ total_stats' = r.total_stats
    /\ IF CanOpen(config.output_path)
       THEN /\ output' = [written |-> TRUE, report |-> report,
                          no_activity |-> {i \in DOMAIN report.repos :
                                               report.repos[i].user_stats = <<>>},
                          rows |-> [i \in DOMAIN report.repos |->
                                       RepoStatsRows(report.repos[i].user_stats, heap)]]
            /\ pc' = At("done", pc.fi, 0)
       ELSE /\ output' = [written |-> FALSE, exit_code |-> 1]
            /\ pc' = At("exit", pc.fi, 0)
    /\ UNCHANGED <<repo_stats, report, calls, inserted, ops, forge, job, db, server,
                   failing, unanswered, status, frame, api_call_count, sent, wire, done_call,
                   clientVars, config, errors>>

NextGenerate ==
    \/ Generate
    \/ NextForge
    \/ NextRepo
    \/ GetRepoStats
    \/ GitHubGet
    \/ GitLabGet
    \/ PagureGet
    \/ JobDone
    \/ JobFailed
    \/ Render

\* generate has loaded config and is about to compute the range; the forges
\* hold db_ and will answer the requests numbered in failing_ with an error.
GenerateInit(config_, db_, failing_) ==
    /\ heap = <<>>
    /\ repo_stats = RepoStats("", "")
    /\ report = Report(0, 0, 0)
    /\ total_stats = <<>>
    /\ calls = 0
    /\ inserted = <<>>
    /\ ops = 0
    /\ forge = ""
    /\ job = Job(<<>>, Range(0, 0))
    /\ db = db_
    /\ server = [page_size |-> MaxPageSize, total_pages_header |-> TRUE]
    /\ failing = failing_
    /\ unanswered = {}
    /\ status = "none"
    /\ frame = IdleFrame
    /\ api_call_count = 0
    /\ sent = 0
    /\ wire = <<>>
    /\ done_call = NoCall
    /\ client = NoClient
    /\ counted = 0
    /\ found = {}
    /\ config = config_
    /\ pc = [phase |-> "start", fi |-> 0, ri |-> 0, first |-> 1]
    /\ errors = <<>>
    /\ output = NoOutput

\* Configurations config.py accepts: every forge with usernames and repos;
\* a forge name in another case, a forge without client class, a username
\* listed twice, an endpoint of one's own.
ForgeConfigs ==
    { << ForgeConfig("GitLab", "t", "", <<"alice", "bob">>, <<Repo, OtherRepo>>),
         ForgeConfig("GitHub", "t", "", <<"alice">>, <<Repo>>) >>,
      << ForgeConfig("GitHub", "", "", <<"alice", "bob">>, <<Repo>>),
         ForgeConfig("gitlab", "t", "", <<"alice">>, <<Repo, OtherRepo>>) >>,
      << ForgeConfig("Bitbucket", "t", "", <<"alice">>, <<Repo>>),
         ForgeConfig("Pagure", "t", "", <<"bob", "alice">>, <<Repo>>) >>,
      << ForgeConfig("Pagure", "", "", <<"alice">>, <<Repo, OtherRepo>>),
         ForgeConfig("GitLab", "t", "https://forge.example/api/", <<"alice", "alice">>,
                     <<Repo>>) >>,
      << ForgeConfig("GitLab", "t", "", <<"alice">>, <<Repo>>) >>,
      << ForgeConfig("GitHub", "t", "", <<"alice", "alice">>, <<Repo>>) >> }

\* What the forges hold for a report over range r.
GenerateDb(r) ==
    [items |-> ScenarioItems(r), commits |-> <<Commit(Repo, "alice", r.start_date)>>]

\* The requests that fail: none, one, or all up to the n-th.
Failings == {{}} \cup {{n} : n \in 1..MaxRequests} \cup {1..n : n \in 1..MaxRequests}

\* A report for the year FirstYear, run within that year or in the next.
InitJobs ==
    \E forges \in ForgeConfigs, now \in {YearStart(FirstYear) + DayLen,
                                         YearStart(FirstYear + 1) + 1},
       failing_ \in Failings, output_path \in {OutputPath, MissingDirPath} :
        GenerateInit([year |-> FirstYear, now |-> now, forges |-> forges,
                      output_path |-> output_path],
                     GenerateDb(ReportRange(FirstYear, now)), failing_)

\* A report for a year, run at any instant of that year, the year before or
\* a year after.
InitRange ==
    \E year \in {FirstYear, FirstYear + 1},
       now \in YearStart(FirstYear)..(YearStart(FirstYear + 3) - 1),
       failing_ \in {{}, {1}}, output_path \in {OutputPath, MissingDirPath} :
        GenerateInit([year |-> year, now |-> now,
                      forges |-> << ForgeConfig("GitLab", "t", "", <<"alice">>, <<Repo>>),
                                    ForgeConfig("GitHub", "t", "", <<"alice">>, <<Repo>>),
                                    ForgeConfig("Pagure", "t", "", <<"alice">>, <<Repo>>) >>,
                      output_path |-> output_path],
                     GenerateDb(ReportRange(year, now)), failing_)

InitGenerate == InitJobs \/ InitRange

SpecGenerate == InitGenerate /\ [][NextGenerate]_vars

(***************************************************************************)
(* enumerate_repos of the three adapters, one HTTP request a step.  The    *)
(* requests of a call are numbered on from sent, and log is the requests   *)
(* made so far in the call, each with the username it was made for (its    *)
(* index ui in usernames), the query it belongs to and whether             *)
(* _make_request got through it without raising.                           *)
(***************************************************************************)
\* A plausible bug: the exception goes on to the caller.
Caught_reraise(r) == r

\* try: ... except Exception: pass, around a discovery query: the query
\* that raised gives the empty set.
Caught(r) == [r EXCEPT !.raised = FALSE, !.repos = IF r.raised THEN {} ELSE @]

\* The requests issued before the enumerate_repos call in progress.
CallBase == sent - Len(wire)

\* A request of the call: the query it belongs to, whether it was answered
\* without error, and the local repos of enumerate_repos after it.
LogEntry(tag, url, n, status_code) ==
    [ui |-> tag.ui, kind |-> tag.kind, url |-> url,
     ok |-> ~Fails(n) /\ status_code = 200, n |-> n, repos |-> tag.repos]

\* repos.update(...) after the query whose last request ends log.
Updated(log, repos) == [log EXCEPT ![Len(log)].repos = repos]

\* repository_url of an item, as url.split("/repos/") gives it.
RepositoryUrl(item) == <<"https://api.github.com", item.repo>>

\* parts = repo_url.split("/repos/"); if len(parts) == 2: repos.add(parts[1])
GitHubRepoOf(parts) == IF Len(parts) = 2 THEN {parts[2]} ELSE {}

\* GitHubClient._make_request, called from enumerate_repos.
RECURSIVE GitHub_make_request(_, _, _, _)
GitHub_make_request(url, tag, results, log) ==
    LET n == CallBase + Len(log) + 1
        log1 == Append(log, LogEntry(tag, url, n, 200))
    IN  CHOOSE result \in
            {IF Fails(n) THEN [raised |-> TRUE, data |-> <<>>, log |-> log1]
             ELSE IF get_next_page_url(response.link).endpoint # "none"
             THEN GitHub_make_request(get_next_page_url(response.link), tag,
                                      Append(results, response.data), log1)
             ELSE [raised |-> FALSE, data |-> Append(results, response.data),
                   log |-> log1] :
                 response \in {GitHubServe(db, server, url)}} : TRUE

\* The query of _search_issues (issue_type "issue" or "pr") and, for kind
\* "comment", of _search_comments.
GitHubDiscover(kind, username, start_date, end_date) ==
    IF kind = "comment"
    THEN GitHubSearch("search/issues", "commenter", username, "", "", "created",
                      start_date, end_date, "", FALSE)
    ELSE GitHubSearch("search/issues", "author", username, "", kind, "created",
                      start_date, end_date, "", FALSE)

\* _search_issues and _search_comments: the repositories of the items of
\* response[0].
GitHub_search(kind, username, tag, log) ==
    CHOOSE result \in
        {Caught([raised |-> r.raised, log |-> r.log,
                 repos |-> UNION {GitHubRepoOf(RepositoryUrl(item)) :
                                      item \in UNION {{items[i] : i \in DOMAIN items} :
                                          items \in {IF r.data = <<>> THEN <<>>
                                                     ELSE r.data[1].items}}}]) :
             r \in {GitHub_make_request(GitHubDiscover(kind, username, job.start_date,
                                                       job.end_date), tag, <<>>, log)}} : TRUE

GitHubKinds == <<"issue", "pr", "comment">>

\* GitHubClient.enumerate_repos, from query k of usernames[ui] on; acc1 is
\* repos (and the requests made) after the query, computed once.
RECURSIVE GitHub_enumerate_repos(_, _, _)
GitHub_enumerate_repos(ui, k, acc) ==
    IF acc.raised \/ ui > Len(job.usernames) THEN acc
    ELSE LET last == k = Len(GitHubKinds)
         IN  CHOOSE result \in UNION
                 {{GitHub_enumerate_repos(IF last THEN ui + 1 ELSE ui,
                                          IF last THEN 1 ELSE k + 1, acc1) :
                       acc1 \in {[raised |-> r.raised,
                                  log |-> Updated(r.log, acc.repos \cup r.repos),
                                  repos |-> acc.repos \cup r.repos]}} :
                  r \in {GitHub_search(GitHubKinds[k], job.usernames[ui],
                                       [ui |-> ui, kind |-> GitHubKinds[k],
                                        repos |-> acc.repos], acc.log)}} : TRUE

\* web_url of an issue or merge request, as web_url.split("/-/") gives it,
\* the first part as parts[0].split("/", 3) gives it.
WebUrl(item) ==
    << <<"https:", "", "gitlab.com", item.repo>>,
       <<IF item.type = "issue" THEN "issues" ELSE "merge_requests", item.id>> >>

\* web_url = issue.get("web_url", ""); if web_url: an object without the key
\* is passed over.
HasWebUrl(item) == item.repo # ""

\* if len(parts) >= 2: project = parts[0].split("/", 3)[-1]
GitLabProjectOf(parts) == IF Len(parts) >= 2 THEN {parts[1][Len(parts[1])]} ELSE {}

\* GitLabClient._make_request, called from enumerate_repos.
RECURSIVE GitLab_make_request(_, _, _, _, _)
GitLab_make_request(url, tag, page, results, log) ==
    LET n == CallBase + Len(log) + 1
        log1 == Append(log, LogEntry(tag, [url EXCEPT !.page = page], n, 200))
    IN  CHOOSE result \in
            {IF Fails(n) THEN [raised |-> TRUE, data |-> <<>>, log |-> log1]
             ELSE IF response.data = <<>>
             THEN [raised |-> FALSE, data |-> results, log |-> log1]
             ELSE IF ~response.is_list
             THEN [raised |-> FALSE, data |-> Append(results, response.data),
                   log |-> log1]
             ELSE IF GitLabLastPage(response.total_pages, page)
             THEN [raised |-> FALSE, data |-> results \o response.data, log |-> log1]
             ELSE GitLab_make_request(url, tag, page + 1, results \o response.data, log1) :
                 response \in {GitLabServe(db, server, url, page)}} : TRUE

\* _get_user_id: users[0].get("id"), None when there is no such user or
\* the request failed.
GitLab_get_user_id(username, tag, log) ==
    LET url == [endpoint |-> "/users", params |-> [username |-> username],
                per_page |-> PerPage, page |-> 1]
    IN  CHOOSE result \in
            {[raised |-> Caught([raised |-> r.raised, log |-> r.log, repos |-> {}]).raised,
              log |-> r.log,
              user_id |-> IF ~r.raised /\ r.data # <<>> THEN r.data[1].id ELSE Null] :
                 r \in {GitLab_make_request(url, tag, 1, <<>>, log)}} : TRUE

\* _get_user_issues (kind "/issues") and _get_user_merge_requests (kind
\* "/merge_requests").
GitLab_get_user(kind, user_id, tag, log) ==
    LET url == [endpoint |-> kind,
                params |-> [author_id |-> user_id, created_after |-> job.start_date,
                            created_before |-> job.end_date, scope |-> "all"],
                per_page |-> PerPage, page |-> 1]
    IN  CHOOSE result \in
            {Caught([raised |-> r.raised, log |-> r.log,
                     repos |-> UNION {GitLabProjectOf(WebUrl(r.data[i])) :
                                          i \in {k \in DOMAIN r.data :
                                                     HasWebUrl(r.data[k])}}]) :
                 r \in {GitLab_make_request(url, tag, 1, <<>>, log)}} : TRUE

\* GitLabClient.enumerate_repos, from usernames[ui] on.
RECURSIVE GitLab_enumerate_repos(_, _)
GitLab_enumerate_repos(ui, acc) ==
    IF acc.raised \/ ui > Len(job.usernames) THEN acc
    ELSE CHOOSE result \in UNION
             {{GitLab_enumerate_repos(ui + 1, acc1) :
                   acc1 \in
                       IF u.raised \/ IsNone(u.user_id) \/ u.user_id = 0
                       THEN {[acc EXCEPT !.raised = u.raised, !.log = u.log]}
                       ELSE UNION
                           {IF i.raised
                            THEN {[raised |-> TRUE, log |-> i.log, repos |-> acc.repos]}
                            ELSE {[raised |-> m.raised,
                                   log |-> Updated(m.log, acc.repos \cup i.repos
                                                              \cup m.repos),
                                   repos |-> acc.repos \cup i.repos \cup m.repos] :
                                      m \in {GitLab_get_user("/merge_requests", u.user_id,
                                                 [ui |-> ui, kind |-> "/merge_requests",
                                                  repos |-> acc.repos \cup i.repos],
                                                 Updated(i.log, acc.repos \cup i.repos))}} :
                               i \in {GitLab_get_user("/issues", u.user_id,
                                          [ui |-> ui, kind |-> "/issues",
                                           repos |-> acc.repos], u.log)}}} :
              u \in {GitLab_get_user_id(job.usernames[ui],
                                        [ui |-> ui, kind |-> "/users", repos |-> acc.repos],
                                        acc.log)}} : TRUE

\* Pagure's answer to GET /user/{username}: the user's forks and repos; 404
\* for a user it does not know.
PagureServeUser(db_, username) ==
    [status_code |-> IF \E n \in DOMAIN db_.users : db_.users[n].username = username
                     THEN 200 ELSE 404,
     user |-> [forks |-> SelectSeq(db_.forks, LAMBDA p : p.owner = username),
               repos |-> SelectSeq(db_.projects, LAMBDA p : p.owner = username)]]

\* _get_user_forks (kind "forks") and _get_user_projects (kind "repos").
Pagure_get_user(kind, username, tag, log) ==
    LET n == CallBase + Len(log) + 1
        url == [endpoint |-> "user", username |-> username]
        response == PagureServeUser(db, username)
        raised == Fails(n) \/ response.status_code # 200
        listed == response.user[kind]
    IN  Caught([raised |-> raised,
                log |-> Append(log, LogEntry(tag, url, n, response.status_code)),
                repos |-> {listed[i].fullname : i \in {j \in DOMAIN listed :
                                                          listed[j].fullname # ""}}])

PagureKinds == <<"forks", "repos">>

\* PagureClient.enumerate_repos, from query k of usernames[ui] on.
RECURSIVE Pagure_enumerate_repos(_, _, _)
Pagure_enumerate_repos(ui, k, acc) ==
    IF acc.raised \/ ui > Len(job.usernames) THEN acc
    ELSE LET last == k = Len(PagureKinds)
         IN  CHOOSE result \in UNION
                 {{Pagure_enumerate_repos(IF last THEN ui + 1 ELSE ui,
                                          IF last THEN 1 ELSE k + 1, acc1) :
                       acc1 \in {[raised |-> r.raised,
                                  log |-> Updated(r.log, acc.repos \cup r.repos),
                                  repos |-> acc.repos \cup r.repos]}} :
                  r \in {Pagure_get_user(PagureKinds[k], job.usernames[ui],
                                         [ui |-> ui, kind |-> PagureKinds[k],
                                          repos |-> acc.repos], acc.log)}} : TRUE

\* repos = set()
NoRepos == [raised |-> FALSE, log |-> <<>>, repos |-> {}]

\* client.enumerate_repos(usernames, start_date, end_date)
enumerate_repos(forge_) ==
    CASE forge_ = "GitHub" -> GitHub_enumerate_repos(1, 1, NoRepos)
      [] forge_ = "GitLab" -> GitLab_enumerate_repos(1, NoRepos)
      [] OTHER             -> Pagure_enumerate_repos(1, 1, NoRepos)

\* enumerate_repos is called: repos = set(), and the loop over usernames
\* begins (it returns at once when there is no request to make).
EnumerateRepos ==
    /\ status = "idle"
    /\ wire = <<>>
    /\ found' = {}
    /\ \E r \in {enumerate_repos(forge)} :
           status' = IF r.log # <<>> THEN "enumerating"
                     ELSE IF r.raised THEN "raised" ELSE "returned"
    /\ UNCHANGED <<heap, repo_stats, report, total_stats, calls, inserted, ops, forge, job,
                   db, server, failing, unanswered, frame, api_call_count, sent, wire,
                   done_call, client, counted, generateVars>>

\* The next request of the enumerate_repos call in progress (the call waits
\* for its answer), and what the call does with the answer up to its next
\* request or its return.
EnumerateGet ==
    /\ status = "enumerating"
    /\ \E r \in {enumerate_repos(forge)} :
           LET entry == r.log[Len(wire) + 1] IN
           /\ found' = entry.repos
           /\ wire' = Append(wire, entry)
           /\ sent' = sent + 1
           /\ counted' = counted + 1
           /\ api_call_count' = IF forge = "GitLab" THEN api_call_count
                                ELSE api_call_count + Counted(entry.n)
           /\ status' = IF Len(wire) + 1 < Len(r.log) THEN status
                         ELSE IF r.raised THEN "raised" ELSE "returned"
    /\ UNCHANGED <<heap, repo_stats, report, total_stats, calls, inserted, ops, forge, job,
                   db, server, failing, unanswered, frame, done_call, client, generateVars>>

NextEnumerate == EnumerateRepos \/ EnumerateGet

\* What the forges hold about alice and bob (carol they do not know): items
\* created within r and before it, in three repositories, and the projects
\* and forks of each.
DiscoverDb(r) ==
    [items |-> << MakeItem("issue", 1, Repo, "alice", r.start_date, Null, Null,
                           <<Comment("alice", r.start_date)>>),
                  MakeItem("pr", 2, OtherRepo, "alice", r.end_date, Null, Null, <<>>),
                  MakeItem("issue", 3, "org/third", "bob", r.start_date, Null, Null,
                           <<Comment("alice", r.end_date)>>),
                  MakeItem("pr", 4, Repo, "bob", r.end_date, Null, Null, <<>>),
                  MakeItem("issue", 5, "org/old", "alice", 0, Null, Null, <<>>) >>,
     commits |-> <<>>,
     users |-> <<[id |-> 1, username |-> "alice"], [id |-> 2, username |-> "bob"]>>,
     projects |-> <<[owner |-> "alice", fullname |-> Repo],
                    [owner |-> "bob", fullname |-> Repo],
                    [owner |-> "bob", fullname |-> OtherRepo]>>,
     forks |-> <<[owner |-> "alice", fullname |-> "forks/alice/third"]>>]

\* The usernames to discover: one, two, one listed twice, one unknown.
DiscoverUsernames ==
    {<<"alice">>, <<"alice", "bob">>, <<"bob", "alice">>, <<"alice", "alice">>,
     <<"carol", "alice">>, <<"bob", "carol">>}

MaxFailing == 6

\* A client and the usernames and range enumerate_repos is about to be
\* called with; the forge answers whole results in one page.
InitDiscover ==
    \E forge_ \in Forges, usernames \in DiscoverUsernames, r \in Ranges,
       fails \in SUBSET (1..MaxFailing), answered \in BOOLEAN :
        /\ FetchInitFailures(forge_, [repo |-> "", usernames |-> usernames,
                                      start_date |-> r.start_date,
                                      end_date |-> r.end_date],
                             DiscoverDb(r),
                             [page_size |-> PerPage, total_pages_header |-> TRUE],
                             IF answered THEN fails ELSE {},
                             IF answered THEN {} ELSE fails)

\* The same, with users whose id the forge gives as null or as 0.
NoIdDb(r, id) ==
    [DiscoverDb(r) EXCEPT !.users = <<[id |-> id, username |-> "alice"],
                                      [id |-> 2, username |-> "bob"]>>]

\* A GitLab that answers every request with an object or with nothing, and
\* one whose users have no id.
InitOddGitLab ==
    \E usernames \in DiscoverUsernames, r \in Ranges,
       mode \in {"pages", "object", "empty"}, header \in BOOLEAN,
       id \in {1, 0, JsonNull, Null}, fails \in {{}, {1}, {2}} :
        /\ mode = "pages" <=> id # 1
        /\ FetchInitFailures("GitLab", [repo |-> "", usernames |-> usernames,
                                        start_date |-> r.start_date,
                                        end_date |-> r.end_date],
                             NoIdDb(r, id),
                             [page_size |-> PerPage, total_pages_header |-> header,
                              mode |-> mode], fails, {})

InitEnumerate == InitDiscover \/ InitOddGitLab

SpecEnumerate == InitEnumerate /\ [][NextEnumerate]_vars

\* get_repo_stats of the GitLab adapter alone, against servers that page as
\* GitLab does, that repeat the first page, or that answer an object; the
\* second request is answered, answered with an HTTP error, or not answered.
NextGitLab == GetRepoStats \/ GitLabGet

InitServers ==
    \E k \in 0..MaxItems, size \in 1..MaxPageSize, header \in BOOLEAN,
       mode \in {"pages", "repeat", "object", "empty"},
       fails \in {<<{}, {}>>, <<{2}, {}>>, <<{}, {2}>>} :
        FetchInitFailures("GitLab", Job(<<"alice">>, Range(DayLen, 3 * DayLen - 1)),
                          PagingDb(Range(DayLen, 3 * DayLen - 1), k),
                          [page_size |-> size, total_pages_header |-> header,
                           mode |-> mode], fails[1], fails[2])

\* The client's loop goes on while it can: every request gets its answer.
SpecServers == InitServers /\ [][NextGitLab]_vars /\ WF_vars(NextGitLab)

\* get_repo_stats with a username listed more than once.
InitRepeated ==
    \E forge_ \in Forges, r \in Ranges,
       usernames \in {<<"alice", "alice">>, <<"alice", "bob", "alice">>,
                      <<"bob", "alice", "bob", "bob">>} :
        \E db_ \in ScenarioDbs(r) :
            FetchInit(forge_, Job(usernames, r), db_,
                      [page_size |-> MaxPageSize, total_pages_header |-> TRUE])

SpecRepeated == InitRepeated /\ [][NextFetch]_vars

(***************************************************************************)
(* The operations on the merge model.                                      *)
(***************************************************************************)
Init ==
    /\ heap = <<>>
    /\ repo_stats = RepoStats("GitHub", "org/repo")
    /\ report = FirstReport
    /\ total_stats = <<>>
    /\ calls = 0
    /\ inserted = <<>>
    /\ ops = 0
    /\ forge = "GitHub"
    /\ job = [repo |-> "org/repo", usernames |-> <<>>, start_date |-> 0, end_date |-> 0]
    /\ db = [items |-> <<>>, commits |-> <<>>]
    /\ server = [page_size |-> MaxPageSize, total_pages_header |-> TRUE]
    /\ failing = {}
    /\ unanswered = {}
    /\ status = "idle"
    /\ frame = IdleFrame
    /\ api_call_count = 0
    /\ sent = 0
    /\ wire = <<>>
    /\ done_call = NoCall
    /\ client = NoClient
    /\ counted = 0
    /\ found = {}
    /\ config = NoConfig
    /\ pc = NoJob
    /\ errors = <<>>
    /\ output = NoOutput

\* A caller builds a UserStats object and passes it to repo_stats.add_user_stats.
AddUserStats(username, c) ==
    /\ ops < MaxOps
    /\ LET stats == Len(heap) + 1
           r == add_user_stats(repo_stats.user_stats,
                               Append(heap, UserStatsOf(username, c)), stats)
       IN  /\ heap' = r.heap
           /\ repo_stats' = [repo_stats EXCEPT !.user_stats = r.user_stats]
    /\ inserted' = Append(inserted, UserStatsOf(username, c))
    /\ ops' = ops + 1
    /\ UNCHANGED <<report, total_stats, calls>>
    /\ UNCHANGED fetchVars

\* report.repos.append(repo_stats); the next job starts a RepoStats of its own.
AppendRepo ==
    /\ ops < MaxOps
    /\ report' = [report EXCEPT !.repos = Append(@, repo_stats)]
    /\ repo_stats' = RepoStats(repo_stats.forge, repo_stats.repo)
    /\ inserted' = <<>>
    /\ calls' = 0
    /\ ops' = ops + 1
    /\ UNCHANGED <<heap, total_stats>>
    /\ UNCHANGED fetchVars

\* total_stats = report.get_total_stats()
GetTotalStats ==
    /\ ops < MaxOps
    /\ LET r == get_total_stats(report.repos, heap)
       IN  /\ heap' = r.heap
           /\ total_stats' = r.total_stats
    /\ calls' = IF calls < 2 THEN calls + 1 ELSE calls
    /\ ops' = ops + 1
    /\ UNCHANGED <<repo_stats, report, inserted>>
    /\ UNCHANGED fetchVars

Next ==
    \/ \E username \in Usernames, c \in SampleCounters : AddUserStats(username, c)
    \/ AppendRepo
    \/ GetTotalStats

Spec == Init /\ [][Next]_vars

(***************************************************************************)
(* Helpers of the properties below.                                        *)
(***************************************************************************)
Perms(n) == {p \in [1..n -> 1..n] : \A i, j \in 1..n : p[i] = p[j] => i = j}

Permuted(seq, p) == [i \in 1..Len(seq) |-> seq[p[i]]]

\* The counters stored for username in the mapping user_stats_ of heap h.
CountersOf(user_stats_, h, username) == Counters(h[DictGet(user_stats_, username)])

\* The mapping user_stats_ by value: username -> counters.
ValuesOf(user_stats_, h) ==
    [username \in DictKeys(user_stats_) |-> CountersOf(user_stats_, h, username)]

\* values[i], values[i+1], ... passed one after the other, each as a fresh
\* object, to add_user_stats of the mapping user_stats_.
RECURSIVE InsertAll(_, _, _, _)
InsertAll(user_stats_, h, values, i) ==
    IF i > Len(values) THEN [user_stats |-> user_stats_, heap |-> h]
    ELSE LET r == add_user_stats(user_stats_, Append(h, values[i]), Len(h) + 1)
         IN  InsertAll(r.user_stats, r.heap, values, i + 1)

\* merge(x, y) of two RepoStats mappings: every UserStats held by items[i],
\* items[i+1], ... is passed to add_user_stats of user_stats_.
RECURSIVE MergeInto(_, _, _, _)
MergeInto(user_stats_, h, items, i) ==
    IF i > Len(items) THEN [user_stats |-> user_stats_, heap |-> h]
    ELSE LET r == add_user_stats(user_stats_, h, items[i].v)
         IN  MergeInto(r.user_stats, r.heap, items, i + 1)

\* The first k values inserted into one RepoStats, the others into a second
\* one, and the second merged into the first.
Grouped(values, k) ==
    LET left  == InsertAll(<<>>, <<>>, SubSeq(values, 1, k), 1)
        right == InsertAll(<<>>, left.heap, SubSeq(values, k + 1, Len(values)), 1)
        r     == MergeInto(left.user_stats, right.heap, right.user_stats, 1)
    IN  ValuesOf(r.user_stats, r.heap)

\* The field-wise sum of the counters of the values of username.
RECURSIVE SumCounters(_, _, _)
SumCounters(values, username, i) ==
    IF i > Len(values) THEN ZeroCounters
    ELSE LET rest == SumCounters(values, username, i + 1)
         IN  IF values[i].username = username
             THEN [f \in 1..Len(Fields) |-> Counters(values[i])[f] + rest[f]]
             ELSE rest

\* Copies of the UserStats of every repository, merged one at a time into one
\* mapping.
RECURSIVE MergeOneAtATime(_, _, _, _)
MergeOneAtATime(user_stats_, h, repos, i) ==
    IF i > Len(repos) THEN ValuesOf(user_stats_, h)
    ELSE LET copies == [j \in DOMAIN repos[i].user_stats |-> h[repos[i].user_stats[j].v]]
             r == InsertAll(user_stats_, h, copies, 1)
         IN  MergeOneAtATime(r.user_stats, r.heap, repos, i + 1)

TotalValues(repos, h) ==
    LET r == get_total_stats(repos, h) IN ValuesOf(r.total_stats, r.heap)

\* The identities of the UserStats objects stored in a RepoStats.
StoredIds ==
    {repo_stats.user_stats[i].v : i \in DOMAIN repo_stats.user_stats}
    \cup UNION {{report.repos[n].user_stats[i].v : i \in DOMAIN report.repos[n].user_stats}
                : n \in DOMAIN report.repos}

(***************************************************************************)
(* The merge model: C1 .. C5                                               *)
(***************************************************************************)

\* C1: merging UserStats through add_user_stats is commutative and
\* associative: three UserStats a, b, c inserted in any order, and in either
\* grouping ((a b) c or a (b c)), leave the counters that the calls made in
\* the program's order left.
C1_MergeCommutativeAssociative ==
    Len(inserted) = 3 =>
        \A p \in Perms(3) :
            /\ ValuesOf(InsertAll(<<>>, <<>>, Permuted(inserted, p), 1).user_stats,
                        InsertAll(<<>>, <<>>, Permuted(inserted, p), 1).heap)
                   = ValuesOf(repo_stats.user_stats, heap)
            /\ \A k \in 0..3 :
                   Grouped(Permuted(inserted, p), k) = ValuesOf(repo_stats.user_stats, heap)

\* Three UserStats of one username, two of them different and not zero, were merged.
C1_Witness ==
    /\ Len(inserted) = 3
    /\ \A i \in 1..3 : inserted[i].username = "alice"
    /\ Counters(inserted[1]) # ZeroCounters
    /\ Counters(inserted[2]) # ZeroCounters
    /\ Counters(inserted[1]) # Counters(inserted[2])

\* C2: whenever get_total_stats() has returned and nothing was appended
\* since, its result holds for every username the counters that merging every
\* RepoStats' UserStats one at a time gives, and get_total_stats() of every
\* permutation of report.repos gives the same counters.
C2_TotalIsOrderIndependentMerge ==
    calls > 0 =>
        /\ ValuesOf(total_stats, heap) = MergeOneAtATime(<<>>, heap, report.repos, 1)
        /\ \A p \in Perms(Len(report.repos)) :
               TotalValues(Permuted(report.repos, p), heap) = ValuesOf(total_stats, heap)

\* Totals were computed over two repositories that both hold alice, with
\* different counters that are not zero.
C2_Witness ==
    /\ calls > 0
    /\ Len(report.repos) >= 2
    /\ DictHas(report.repos[1].user_stats, "alice")
    /\ DictHas(report.repos[2].user_stats, "alice")
    /\ CountersOf(report.repos[1].user_stats, heap, "alice") # ZeroCounters
    /\ CountersOf(report.repos[2].user_stats, heap, "alice") # ZeroCounters
    /\ CountersOf(report.repos[1].user_stats, heap, "alice")
           # CountersOf(report.repos[2].user_stats, heap, "alice")

\* C3: a step that merges an all-zero UserStats into a RepoStats that holds
\* the username leaves the counters of that username as they were, and a step
\* that inserts a into a RepoStats holding only an all-zero entry of the
\* username leaves the counters of a.
C3_ZeroIsNeutral ==
    [][\A username \in Usernames :
          (/\ Len(inserted') = Len(inserted) + 1
           /\ inserted'[Len(inserted')].username = username
           /\ DictHas(repo_stats.user_stats, username))
          => LET a == inserted'[Len(inserted')]
                 before == CountersOf(repo_stats.user_stats, heap, username)
                 after  == CountersOf(repo_stats'.user_stats, heap', username)
             IN  /\ Counters(a) = ZeroCounters => after = before
                 /\ (before = ZeroCounters /\ Len(repo_stats.user_stats) = 1)
                        => after = Counters(a)]_vars

\* A zero UserStats was merged into an entry that is not zero, after an entry
\* that was zero got counters.
C3_Witness ==
    /\ Len(inserted) = 3
    /\ \A i \in 1..3 : inserted[i].username = "alice"
    /\ Counters(inserted[1]) = ZeroCounters
    /\ Counters(inserted[2]) # ZeroCounters
    /\ Counters(inserted[3]) = ZeroCounters
    /\ CountersOf(repo_stats.user_stats, heap, "alice") = Counters(inserted[2])

\* C4: after any sequence of add_user_stats calls the mapping holds exactly
\* one entry per distinct username inserted, and its counters are the
\* field-wise sum of the UserStats inserted for that username (an insertion
\* for a username already present adds, it does not replace).
C4_OneEntryPerUserWithSum ==
    /\ \A i, j \in DOMAIN repo_stats.user_stats :
           repo_stats.user_stats[i].k = repo_stats.user_stats[j].k => i = j
    /\ DictKeys(repo_stats.user_stats) = {inserted[i].username : i \in DOMAIN inserted}
    /\ \A username \in DictKeys(repo_stats.user_stats) :
           CountersOf(repo_stats.user_stats, heap, username)
               = SumCounters(inserted, username, 1)

\* Two usernames were inserted, one of them twice with counters that are not zero.
C4_Witness ==
    /\ Len(inserted) = 3
    /\ inserted[1].username = "alice" /\ Counters(inserted[1]) # ZeroCounters
    /\ inserted[2].username = "bob"
    /\ inserted[3].username = "alice" /\ Counters(inserted[3]) # ZeroCounters
    /\ Len(repo_stats.user_stats) = 2

\* C5: a get_total_stats() step leaves report.repos, the RepoStats under
\* construction and every UserStats object that existed unchanged; the
\* objects it returns are none of the stored ones; and a call that follows
\* another with no append in between returns an equal mapping.
C5_GetTotalStatsPure ==
    [][GetTotalStats =>
          /\ report' = report
          /\ repo_stats' = repo_stats
          /\ \A id \in DOMAIN heap : heap'[id] = heap[id]
          /\ StoredIds' \cap {total_stats'[i].v : i \in DOMAIN total_stats'} = {}
          /\ calls > 0 => ValuesOf(total_stats', heap') = ValuesOf(total_stats, heap)]_vars

\* get_total_stats() was called twice in a row over a report that holds
\* alice with counters that are not zero.
C5_Witness ==
    /\ calls = 2
    /\ Len(report.repos) >= 1
    /\ DictHas(report.repos[1].user_stats, "alice")
    /\ CountersOf(report.repos[1].user_stats, heap, "alice") # ZeroCounters
    /\ DictHas(total_stats, "alice")
    /\ CountersOf(total_stats, heap, "alice")
           = CountersOf(report.repos[1].user_stats, heap, "alice")

(***************************************************************************)
(* The counts the range rule asks for, from what the forge holds.          *)
(***************************************************************************)
\* start <= t <= end
InRange(t, j) == t >= 0 /\ j.start_date <= t /\ t <= j.end_date

\* The qualifying timestamp of item i for metric m (1..5): creation, close, merge.
QualifyingTime(i, m) ==
    CASE m \in {1, 3} -> i.created_at
      [] m \in {2, 4} -> i.closed_at
      [] OTHER        -> i.merged_at

MetricType(m) == IF m \in {1, 2, 8} THEN "issue" ELSE "pr"

\* The records of username's in the repository of j that metric m is about.
ItemsOf(m, username, j) ==
    SelectSeq(db.items, LAMBDA i : /\ i.type = MetricType(m)
                                   /\ i.repo = j.repo
                                   /\ i.author = username)

\* The comments of username's on the items of the repository metric m is about.
CommentsOf(m, username, j) ==
    {<<p, k>> \in (DOMAIN db.items) \X (1..MaxItems) :
         /\ k \in DOMAIN db.items[p].comments
         /\ db.items[p].type = MetricType(m)
         /\ db.items[p].repo = j.repo
         /\ db.items[p].comments[k].author = username}

\* The qualifying timestamps of the records metric m counts for username.
QualifyingTimes(m, username, j) ==
    CASE m \in 1..5 -> {QualifyingTime(ItemsOf(m, username, j)[n], m) :
                            n \in DOMAIN ItemsOf(m, username, j)}
      [] m = 6      -> {db.commits[n].time :
                            n \in {x \in DOMAIN db.commits :
                                       /\ db.commits[x].repo = j.repo
                                       /\ db.commits[x].author = username}}
      [] OTHER      -> {db.items[c[1]].comments[c[2]].created_at :
                            c \in CommentsOf(m, username, j)}

\* The number of qualifying records of username's for metric m; where the
\* forge's search cannot count comments, the parents with a qualifying comment.
TrueCount(m, username, j) ==
    CASE m \in 1..5 -> Len(SelectSeq(ItemsOf(m, username, j),
                                  LAMBDA i : InRange(QualifyingTime(i, m), j)))
      [] m = 6      -> Len(SelectSeq(db.commits,
                                  LAMBDA c : /\ c.repo = j.repo
                                             /\ c.author = username
                                             /\ InRange(c.time, j)))
      [] OTHER      ->
            LET q == {c \in CommentsOf(m, username, j) :
                          InRange(db.items[c[1]].comments[c[2]].created_at, j)}
            IN  IF forge = "GitHub" THEN Cardinality({c[1] : c \in q})
                ELSE Cardinality(q)

\* The counter of metric m in the entry of username of the RepoStats built.
Counter(username, m) ==
    heap[DictGet(repo_stats.user_stats, username)][Fields[m]]

\* The first request of metric m carries a range of days, not of instants.
DayGrain(m, username) ==
    LET url == FirstUrl(m, username)
    IN  CASE forge = "GitHub" -> TRUE
          [] forge = "Pagure" -> \/ url.params.created_from # Null
                                 \/ url.params.closed_from # Null
          [] OTHER            -> FALSE

Metrics == 1..Len(Fields)

\* C6: for every adapter and every metric, a record whose qualifying
\* timestamp is start or end exactly is counted, and a record whose
\* qualifying timestamp is one unit before start or after end is not.
C6_BoundaryInclusive ==
    status = "returned" =>
        \A m \in Metrics : \A t \in QualifyingTimes(m, "alice", job) :
            /\ t \in {job.start_date, job.end_date} => Counter("alice", m) = 1
            /\ t \in {job.start_date - 1, job.end_date + 1} => Counter("alice", m) = 0

\* The adapters whose filter is on instants count a record at end and do not
\* count the record one unit after it.
C6_Witness ==
    /\ status = "returned"
    /\ forge = "GitLab"
    /\ \E m \in Metrics : /\ QualifyingTimes(m, "alice", job) = {job.end_date}
                          /\ Counter("alice", m) = 1
    /\ \E m \in Metrics : /\ QualifyingTimes(m, "alice", job) = {job.end_date + 1}
                          /\ Counter("alice", m) = 0

\* C7: where the request carries a range of days only, the instant comparison
\* start <= t <= end is applied again to what comes back: a record on the end
\* day but after end, or on the start day but before start, is not counted.
C7_DayGrainRefiltered ==
    status = "returned" =>
        \A m \in Metrics : \A t \in QualifyingTimes(m, "alice", job) :
            ( /\ DayGrain(m, "alice")
              /\ t >= 0
              /\ ~InRange(t, job)
              /\ DateOf(job.start_date) <= DateOf(t)
              /\ DateOf(t) <= DateOf(job.end_date) )
            => Counter("alice", m) = 0

\* C8: GitHub's _make_request, over N pages of which all but the last carry a
\* rel="next" link, makes exactly N requests, each to the next URL of the
\* answer before it, and returns the data of the N pages in page order; with
\* no Link header it makes one request.
C8_LinkHeaderPagination ==
    done_call.forge = "GitHub" =>
        LET w == done_call.wire
            response(i) == GitHubServe(db, server, w[i])
            next(i) == {k \in DOMAIN response(i).link :
                            response(i).link[k][2] = "rel=\"next\""}
            N == Max(1, PageCount(
                     IF w[1].endpoint = "search/commits"
                     THEN SelectSeq(db.commits, LAMBDA c : GitHubMatchesCommit(c, w[1].q))
                     ELSE SelectSeq(db.items, LAMBDA i : GitHubMatchesItem(i, w[1].q)),
                     Min(PerPage, server.page_size)))
        IN  /\ Len(w) = N
            /\ w[1].page = 1
            /\ \A i \in 1..(N - 1) :
                   \E k \in next(i) : w[i + 1] = response(i).link[k][1]
            /\ next(N) = {}
            /\ response(1).link = <<>> => Len(w) = 1
            /\ done_call.results = [i \in 1..N |-> response(i).data]

\* Three pages and more have been followed to the end.
C8_Witness ==
    /\ done_call.forge = "GitHub"
    /\ Len(done_call.wire) >= 3
    /\ Len(done_call.results) = Len(done_call.wire)
    /\ Len(done_call.results[Len(done_call.results)].items) > 0

\* The items of pages 1..n of the list all, size items to a page.
RECURSIVE PagesUpTo(_, _, _)
PagesUpTo(all, size, n) ==
    IF n = 0 THEN <<>> ELSE PagesUpTo(all, size, n - 1) \o PageOf(all, size, n)

\* C9: GitLab's _make_request asks for pages 1, 2, ... in increasing order;
\* when the answers carry X-Total-Pages = N and pages 1..N are non-empty
\* lists it makes exactly N requests and returns the items of the N pages;
\* and it makes no request after a page that has no items.
C9_TotalPagesPagination ==
    done_call.forge = "GitLab" =>
        LET w == done_call.wire
            response(i) == GitLabServe(db, server, w[1].url, i)
            N == response(1).total_pages
        IN  /\ \A i \in DOMAIN w : w[i].page = i /\ w[i].url = w[1].url
            /\ (N # Null /\ N >= 1 /\ \A i \in 1..N : response(i).data # <<>>)
               => /\ Len(w) = N
                  /\ done_call.results
                       = PagesUpTo(GitLabCollection(db, w[1].url),
                                   Min(PerPage, server.page_size), N)
            /\ \A i \in 1..(Len(w) - 1) : response(i).data # <<>>

\* A list of four pages with X-Total-Pages has been read in four requests.
C9_Witness ==
    /\ done_call.forge = "GitLab"
    /\ server.total_pages_header
    /\ Len(done_call.wire) = 4
    /\ Len(done_call.results) = 4

\* A list has been read without X-Total-Pages: the last request is the one
\* for the first page without items.
C9_WitnessEmptyPage ==
    /\ done_call.forge = "GitLab"
    /\ ~server.total_pages_header
    /\ Len(done_call.wire) = Len(done_call.results) + 1
    /\ Len(done_call.results) >= 2

\* C10: when get_repo_stats returns, user_stats has an entry for every
\* username, all zeros for a user without qualifying activity, and the
\* counters of each user are the counts of that user's qualifying records.
C10_EntryPerUserOwnRecords ==
    status = "returned" =>
        \A n \in DOMAIN job.usernames :
            /\ DictHas(repo_stats.user_stats, job.usernames[n])
            /\ \A m \in Metrics :
                   Counter(job.usernames[n], m) = TrueCount(m, job.usernames[n], job)

\* The scenario on an adapter that answers it as stated: alice has 2 issues
\* opened and 1 closed, and bob's entry is there, all zeros.
C10_Witness ==
    /\ status = "returned"
    /\ forge = "GitHub"
    /\ job.usernames = <<"alice", "bob">>
    /\ DictHas(repo_stats.user_stats, "alice") /\ DictHas(repo_stats.user_stats, "bob")
    /\ Counter("alice", 1) = 2
    /\ Counter("alice", 2) = 1
    /\ Counters(heap[DictGet(repo_stats.user_stats, "bob")]) = ZeroCounters

\* The parent items of metric m (7: pull requests, 8: issues) of the
\* repository on which username has a comment created within the range.
ParentsCommentedOn(m, username, j) ==
    {p \in DOMAIN db.items :
         /\ db.items[p].type = MetricType(m)
         /\ db.items[p].repo = j.repo
         /\ \E k \in DOMAIN db.items[p].comments :
                /\ db.items[p].comments[k].author = username
                /\ InRange(db.items[p].comments[k].created_at, j)}

\* C11: on GitHub a user who commented k >= 1 times within the range on the
\* same issue (or pull request) contributes exactly 1 to issue_comments (or
\* pr_comments): the count is the number of distinct parent items.
C11_DistinctParents ==
    (status = "returned" /\ forge = "GitHub") =>
        \A m \in {7, 8} :
            Counter("alice", m) = Cardinality(ParentsCommentedOn(m, "alice", job))

\* Two and more comments of alice's on one issue, the last event of the issue:
\* they count as 1.
C11_Witness ==
    /\ status = "returned"
    /\ forge = "GitHub"
    /\ Len(db.items) = 1
    /\ db.items[1].type = "issue"
    /\ Len(SelectSeq(db.items[1].comments, LAMBDA c : c.author = "alice")) >= 2
    /\ Counter("alice", 8) = 1

\* C13: for every adapter, get_api_call_count() is the number of HTTP requests
\* the adapter has issued since construction or the last reset_api_call_count().
C13_CountsEveryRequest == api_call_count = counted

\* On GitHub and Pagure the counter has followed the requests through a reset.
C13_Witness ==
    /\ forge = "Pagure"
    /\ status = "returned"
    /\ sent > counted
    /\ counted > 0
    /\ api_call_count = counted

\* C14: the call counter starts at 0, is not decreased by any operation but
\* reset_api_call_count(), grows by exactly 1 for a request that is counted,
\* and reset_api_call_count() makes it 0 and leaves token and endpoint alone.
C14_CounterMonotoneAndReset ==
    /\ api_call_count = 0
    /\ [][ /\ ResetApiCallCount => (api_call_count' = 0 /\ client' = client)
           /\ ~ResetApiCallCount =>
                  /\ api_call_count' \in {api_call_count, api_call_count + 1}
                  /\ api_call_count' = api_call_count + 1 => counted' = counted + 1
                  /\ client' = client ]_vars

\* The counter has been reset after requests were counted, and the token is
\* the one the adapter was constructed with.
C14_Witness ==
    /\ forge = "GitHub"
    /\ sent > 0
    /\ counted = 0
    /\ api_call_count = 0
    /\ client = NewClient("token", DefaultEndpoint("GitHub"))

\* The counters of the RepoStats returned that are not the count of the
\* user's qualifying records, as <<username, metric>>.
Deviating ==
    {um \in {job.usernames[n] : n \in DOMAIN job.usernames} \X Metrics :
         Counter(um[1], um[2]) # TrueCount(um[2], um[1], job)}

\* C15: an HTTP error in the fetch of one metric of one user does not raise
\* out of get_repo_stats; that metric is 0 or partial, and the other metrics
\* of that user and all metrics of the other users are what they are without
\* the error.
C15_TransportErrorIsolated ==
    /\ status # "raised"
    /\ status = "returned" =>
           /\ Cardinality(Deviating) <= 1
           /\ \A um \in Deviating : Counter(um[1], um[2]) < TrueCount(um[2], um[1], job)

\* On GitHub a request of alice's issues_opened has failed: that counter is 0
\* and her issues_closed is counted.
C15_Witness ==
    /\ status = "returned"
    /\ forge = "GitHub"
    /\ failing # {}
    /\ Deviating = {<<"alice", 1>>}
    /\ Counter("alice", 1) = 0
    /\ Counter("alice", 2) = 1

\* C16: a record with a missing or malformed timestamp or field is skipped
\* and counting goes on: get_repo_stats does not raise, and each metric is
\* the number of the well-formed qualifying records.
C16_MalformedRecordSkipped ==
    /\ status # "raised"
    /\ status = "returned" =>
           \A m \in Metrics : Counter("alice", m) = TrueCount(m, "alice", job)

\* GitHub's answers are only counted: the well-formed records are counted
\* with a malformed record beside them.
C16_Witness ==
    /\ status = "returned"
    /\ forge = "GitHub"
    /\ \E p \in DOMAIN db.items : db.items[p].merged_at = Malformed
    /\ Counter("alice", 5) = 1
    /\ Counter("alice", 2) = 1

\* The jobs of the configuration in the order generate takes them: each repo
\* of each forge that has a client class.
RECURSIVE ConfiguredJobs(_)
ConfiguredJobs(forges) ==
    IF forges = <<>> THEN <<>>
    ELSE LET fc == Head(forges)
         IN  (IF DictHas(ForgeClients, Lower(fc.name))
              THEN [i \in DOMAIN fc.repos |->
                       [name |-> fc.name, forge |-> DictGet(ForgeClients, Lower(fc.name)),
                        repo |-> fc.repos[i]]]
              ELSE <<>>) \o ConfiguredJobs(Tail(forges))

\* Every job of jobs ended either with its RepoStats next in repos or with
\* its error next in errs, and nothing else is in repos or errs.
RECURSIVE EachJobOnce(_, _, _)
EachJobOnce(jobs, repos, errs) ==
    IF jobs = <<>> THEN repos = <<>> /\ errs = <<>>
    ELSE \/ /\ repos # <<>>
            /\ Head(repos).forge = Head(jobs).forge
            /\ Head(repos).repo = Head(jobs).repo
            /\ EachJobOnce(Tail(jobs), Tail(repos), errs)
         \/ /\ errs # <<>>
            /\ Head(errs) = <<Head(jobs).name, Head(jobs).repo>>
            /\ EachJobOnce(Tail(jobs), repos, Tail(errs))

\* C12: when get_repo_stats raises for a job, the error is reported for its
\* (forge, repo) pair, the report is left as it is and the loop goes on with
\* the next repo; the RepoStats of a job that returned is appended; so the
\* rendered report holds, in order, the RepoStats of every configured job
\* but the failed ones, each of which has its error.
C12_JobFailureIsolated ==
    /\ [](output.written =>
            /\ output.report = report
            /\ EachJobOnce(ConfiguredJobs(config.forges), report.repos, errors))
    /\ [][(pc.phase = "fetch" /\ status = "raised") =>
            /\ errors' = Append(errors, <<config.forges[pc.fi].name, job.repo>>)
            /\ report' = report
            /\ pc'.phase = "repo" /\ pc'.fi = pc.fi /\ pc'.ri = pc.ri + 1]_vars
    /\ [][(pc.phase = "fetch" /\ status = "returned") =>
            /\ report'.repos = Append(report.repos, repo_stats)
            /\ errors' = errors
            /\ pc'.phase = "repo" /\ pc'.fi = pc.fi /\ pc'.ri = pc.ri + 1]_vars

\* The report was rendered after a run in which one job failed, a job before
\* it and a job after it succeeded.
C12_Witness ==
    /\ output.written
    /\ LET jobs == ConfiguredJobs(config.forges)
       IN  /\ Len(report.repos) = Len(jobs) - 1
           /\ \E k \in 2..(Len(jobs) - 1) : errors = << <<jobs[k].name, jobs[k].repo>> >>

\* Every request of the job in progress, and there was at least one, was
\* answered with an error.
JobLevelFailure == sent >= pc.first /\ \A n \in pc.first..sent : Fails(n)

\* C17: a job whose every request fails is surfaced as a job failure:
\* get_repo_stats does not return a RepoStats for generate to append.
C17_JobLevelFailureSurfaced ==
    (pc.phase = "fetch" /\ status = "returned") => ~JobLevelFailure

\* GitLabClient.get_repo_stats raised on a job whose requests failed.
C17_Witness ==
    pc.phase = "fetch" /\ status = "raised" /\ forge = "GitLab" /\ JobLevelFailure

\* C19: the Report is created with year = config.year, start_date = the
\* first instant of that year and end_date = now when now is in that year,
\* otherwise 23:59:59 of the year's last day; so start_date <= end_date; and
\* no step after the creation changes year, start_date or end_date.
C19_ReportRange ==
    /\ [](pc.phase # "start" =>
            /\ report.year = config.year
            /\ report.start_date = YearStart(config.year)
            /\ report.end_date = IF YearOf(config.now) = config.year THEN config.now
                                 ELSE YearEnd(config.year)
            /\ report.start_date <= report.end_date)
    /\ [][pc.phase # "start" =>
            /\ report'.year = report.year
            /\ report'.start_date = report.start_date
            /\ report'.end_date = report.end_date]_vars

\* A report for the running year was rendered with jobs appended: its range
\* ends now, before the year's last day begins.
C19_Witness ==
    /\ output.written
    /\ report.repos # <<>>
    /\ YearOf(config.now) = config.year
    /\ report.end_date = config.now
    /\ report.end_date < YearStart(config.year + 1) - DayLen

\* A report for a year that is over, or has not begun, was rendered: its
\* range ends one instant before the year does.
C19_WitnessOtherYear ==
    /\ output.written
    /\ report.repos # <<>>
    /\ YearOf(config.now) # config.year
    /\ report.end_date = YearEnd(config.year)

\* No counter of an entry of the dict before is greater than the counter of
\* the entry of the same username in the dict after, if it is still there.
NotDecreased(before, after) ==
    \A e \in DOMAIN before :
        DictHas(after, before[e].k) =>
            \A i \in DOMAIN Fields :
                heap'[DictGet(after, before[e].k)][Fields[i]] >= heap[before[e].v][Fields[i]]

\* C20: every counter is a natural number; a UserStats an adapter creates
\* starts with every counter zero; and no step decreases a counter of an
\* entry of the RepoStats being filled, of a RepoStats in the report, or of
\* the totals.
C20_CountersNeverDecrease ==
    /\ [](\A id \in DOMAIN heap : \A i \in DOMAIN Fields : heap[id][Fields[i]] \in Nat)
    /\ [][\A id \in DOMAIN heap' :
            (id \notin DOMAIN heap /\ pc.phase = "fetch") =>
                \A i \in DOMAIN Fields : heap'[id][Fields[i]] = 0]_vars
    /\ [][status = "running" => NotDecreased(repo_stats.user_stats, repo_stats'.user_stats)]_vars
    /\ [][\A n \in DOMAIN report.repos :
            n \in DOMAIN report'.repos /\
            NotDecreased(report.repos[n].user_stats, report'.repos[n].user_stats)]_vars
    /\ [][NotDecreased(total_stats, total_stats')]_vars

\* Within one get_repo_stats a second UserStats of a username was merged
\* into the entry of the first and raised a counter of it, and the report
\* with this RepoStats was rendered.
C20_Witness ==
    /\ output.written
    /\ \E n \in DOMAIN report.repos : \E e \in DOMAIN report.repos[n].user_stats :
           LET entry == report.repos[n].user_stats[e]
           IN  /\ Len(SelectSeq(inserted, LAMBDA u : u.username = entry.k)) = 2
               /\ \E i \in DOMAIN Fields : heap[entry.v][Fields[i]] >= 2
    /\ \E e \in DOMAIN total_stats :
           \E i \in DOMAIN Fields : heap[total_stats[e].v][Fields[i]] >= 2

\* The repositories a discovery query of the given kind for username is to
\* find in what the forge holds: of the user's issues and pull (merge)
\* requests created within the range (on GitHub, within its days; there
\* also of the items so created that the user commented on), on Pagure of
\* the user's projects and forks.
Discoverable(forge_, username, kind) ==
    LET days(t) == DateOf(job.start_date) <= DateOf(t) /\ DateOf(t) <= DateOf(job.end_date)
        instants(t) == job.start_date <= t /\ t <= job.end_date
        items == {db.items[i] : i \in DOMAIN db.items}
    IN  CASE forge_ = "GitHub" /\ kind \in {"issue", "pr"} ->
                 {i.repo : i \in {x \in items : x.author = username /\ x.type = kind
                                                /\ days(x.created_at)}}
          [] forge_ = "GitHub" ->
                 {i.repo : i \in {x \in items :
                                      /\ \E c \in DOMAIN x.comments :
                                             x.comments[c].author = username
                                      /\ days(x.created_at)}}
          [] forge_ = "GitLab" /\ kind \in {"/issues", "/merge_requests"} ->
                 {i.repo : i \in {x \in items :
                                      /\ x.author = username
                                      /\ x.type = (IF kind = "/issues" THEN "issue" ELSE "pr")
                                      /\ instants(x.created_at)}}
          [] forge_ = "Pagure" /\ kind = "forks" ->
                 {db.forks[i].fullname : i \in {n \in DOMAIN db.forks :
                                                    db.forks[n].owner = username}}
          [] forge_ = "Pagure" ->
                 {db.projects[i].fullname : i \in {n \in DOMAIN db.projects :
                                                       db.projects[n].owner = username}}
          [] OTHER -> {}

\* The kinds of query the call made for usernames[ui], and those of them
\* none of whose requests failed.
Asked(ui) == {wire[n].kind : n \in {m \in DOMAIN wire : wire[m].ui = ui}}

Answered(ui) == {k \in Asked(ui) : \A n \in DOMAIN wire :
                                       (wire[n].ui = ui /\ wire[n].kind = k) => wire[n].ok}

\* The queries enumerate_repos is to make for usernames[ui]; on GitLab those
\* by author id need the id the forge gave for the username.
ToAsk(forge_, ui) ==
    CASE forge_ = "GitHub" -> {"issue", "pr", "comment"}
      [] forge_ = "Pagure" -> {"forks", "repos"}
      [] OTHER -> {"/users"} \cup
                  (IF /\ "/users" \in Answered(ui)
                      /\ ServerMode(server) = "pages"
                      /\ \E n \in DOMAIN db.users :
                             /\ db.users[n].username = job.usernames[ui]
                             /\ ~IsNone(db.users[n].id)
                             /\ db.users[n].id # 0
                   THEN {"/issues", "/merge_requests"} ELSE {})

\* C18: enumerate_repos does not raise; whatever requests fail, it makes the
\* queries of every username, and the set it returns is the union of what
\* the queries that were answered are to find.
C18_DiscoveryFailureSkipped ==
    /\ status # "raised"
    /\ status = "returned" =>
           /\ \A ui \in DOMAIN job.usernames : Asked(ui) = ToAsk(forge, ui)
           /\ found = UNION {UNION {Discoverable(forge, job.usernames[ui], k) :
                                        k \in Answered(ui)} : ui \in DOMAIN job.usernames}

\* Every query for the first username failed; a query for the second was
\* answered and its repositories are in the set returned, one of them found
\* by two queries.
C18_Witness ==
    /\ status = "returned"
    /\ Len(job.usernames) = 2
    /\ Answered(1) = {}
    /\ \E k \in Answered(2), j \in Answered(2) :
           /\ k # j
           /\ Discoverable(forge, job.usernames[2], k) # {}
           /\ Discoverable(forge, job.usernames[2], k) \cap
                  Discoverable(forge, job.usernames[2], j) # {}
    /\ found # {}

\* The configured jobs that are over when generate is at pc: those of the
\* forges before forge pc.fi and, within it, of the repos before repo pc.ri.
JobsSoFar ==
    LET forges == config.forges
        fi == Min(pc.fi, Len(forges) + 1)
        before == ConfiguredJobs(SubSeq(forges, 1, fi - 1))
    IN  IF pc.phase \in {"repo", "fetch"}
        THEN before \o ConfiguredJobs(<<[forges[fi] EXCEPT
                           !.repos = SubSeq(@, 1, Min(pc.ri - 1, Len(@)))]>>)
        ELSE before

\* C21: at every point of generate, report.repos holds, in configuration
\* order, one RepoStats for each job that is over and did not fail, each
\* failed job has its error and no RepoStats, and a step leaves report.repos
\* as it is or appends one RepoStats at its end.
C21_ReposAreJobsSoFar ==
    /\ [](pc.phase # "start" => EachJobOnce(JobsSoFar, report.repos, errors))
    /\ [][\/ report'.repos = report.repos
          \/ /\ Len(report'.repos) = Len(report.repos) + 1
             /\ SubSeq(report'.repos, 1, Len(report.repos)) = report.repos]_vars

\* In the middle of the loop: a job is being fetched after one job that
\* succeeded and one that failed.
C21_Witness ==
    /\ pc.phase = "fetch"
    /\ status = "running"
    /\ Len(report.repos) = 1
    /\ Len(errors) = 1
    /\ Len(JobsSoFar) = 2
    /\ Len(ConfiguredJobs(config.forges)) = 3

\* The number of records GitHub's search matches for the query of metric m
\* for username, over all pages of the result.
GitHubMatched(m, username) ==
    LET url == GitHubCall(m, job, username)
    IN  IF url.endpoint = "search/commits"
        THEN Len(SelectSeq(db.commits, LAMBDA c : GitHubMatchesCommit(c, url.q)))
        ELSE Len(SelectSeq(db.items, LAMBDA i : GitHubMatchesItem(i, url.q)))

\* C22: on GitHub every counter is the number of items of the metric's
\* search result over all its pages.
C22_CountsAllPages ==
    (forge = "GitHub" /\ status = "returned") =>
        \A m \in Metrics : Counter("alice", m) = GitHubMatched(m, "alice")

\* A result of one page is counted whole.
C22_Witness ==
    /\ forge = "GitHub"
    /\ status = "returned"
    /\ server.page_size = MaxPageSize
    /\ Len(db.items) = MaxPageSize
    /\ Counter("alice", 1) = MaxPageSize
    /\ Counter("alice", 1) = GitHubMatched(1, "alice")

\* The closed items of the repository that username authored, of the type
\* metric m (2: issues_closed, 4: prs_closed) is about.
OwnClosed(m, username) ==
    SelectSeq(ItemsOf(m, username, job), LAMBDA i : i.closed_at # Null)

\* C23: issues_closed and prs_closed of a username count only closed items
\* that the username authored; what others authored adds nothing to them.
C23_ClosedAttributedToUser ==
    status = "returned" =>
        \A i \in DOMAIN job.usernames : \A m \in {2, 4} :
            Counter(job.usernames[i], m) <= Len(OwnClosed(m, job.usernames[i]))

\* On GitHub and Pagure bob's closed counters are 0 while alice's closed
\* issue and pull request are counted for her.
C23_Witness ==
    /\ forge \in {"GitHub", "Pagure"}
    /\ status = "returned"
    /\ Counter("alice", 2) >= 1
    /\ Counter("alice", 4) >= 1
    /\ Counter("bob", 2) = 0
    /\ Counter("bob", 4) = 0

\* The items of the job's repository of the type of metric m, of username
\* or (author "") of anyone, with a close (merge) time, and that within the
\* range.
ClosedWithin(m, author) ==
    SelectSeq(db.items,
              LAMBDA i : /\ i.type = MetricType(m)
                         /\ i.repo = job.repo
                         /\ author # "" => i.author = author
                         /\ QualifyingTime(i, m) # Null
                         /\ InRange(QualifyingTime(i, m), job))

\* C24: where the adapter filters client-side, an item that was never
\* closed is not in the closed count and one never merged is not in the
\* merged count, whenever it was created, and the call does not raise:
\* GitLab's closed counts are the project's items closed within the range,
\* GitLab's and Pagure's merged count the user's pull requests merged
\* within it.
C24_NeverClosedExcluded ==
    /\ status # "raised"
    /\ (status = "returned" /\ forge = "GitLab") =>
           /\ Counter("alice", 2) = Len(ClosedWithin(2, ""))
           /\ Counter("alice", 4) = Len(ClosedWithin(4, ""))
    /\ (status = "returned" /\ forge \in {"GitLab", "Pagure"}) =>
           Counter("alice", 5) = Len(ClosedWithin(5, "alice"))

\* GitLab was given an issue created within the range and never closed: it
\* is counted as opened and not as closed.
C24_Witness ==
    /\ forge = "GitLab"
    /\ status = "returned"
    /\ \E n \in DOMAIN db.items :
           /\ db.items[n].type = "issue"
           /\ db.items[n].closed_at = Null
           /\ InRange(db.items[n].created_at, job)
    /\ Counter("alice", 1) = 1
    /\ Counter("alice", 2) = 0

\* Pagure was given a pull request closed within the range and never
\* merged: it is not counted as merged.
C24_WitnessPagure ==
    /\ forge = "Pagure"
    /\ status = "returned"
    /\ \E n \in DOMAIN db.items :
           /\ db.items[n].type = "pr"
           /\ db.items[n].merged_at = Null
           /\ InRange(db.items[n].closed_at, job)
    /\ Counter("alice", 5) = 0

\* The next request is the sub-request for one parent item of a comment
\* count of GitLab or Pagure, and it will fail.
FanOutFails ==
    /\ status = "running"
    /\ forge \in {"GitLab", "Pagure"}
    /\ frame.metric \in {7, 8}
    /\ frame.phase = "notes"
    /\ Fails(sent + 1)

\* C25: when the sub-request for one parent item fails, get_repo_stats does
\* not raise, the comments counted on the parents before are kept, and the
\* count goes on with the next parent or, after the last, is the metric.
C25_FanOutFailureIsolated ==
    [][FanOutFails =>
          /\ status' # "raised"
          /\ IF frame.idx < Len(frame.parents)
             THEN /\ frame'.metric = frame.metric
                  /\ frame'.phase = "notes"
                  /\ frame'.idx = frame.idx + 1
                  /\ frame'.comment_count = frame.comment_count
             ELSE heap'[frame.user_stats][Fields[frame.metric]] = frame.comment_count]_vars

\* The sub-request for the second parent is about to fail after a comment
\* was counted on the first.
C25_Witness ==
    /\ FanOutFails
    /\ forge = "Pagure"
    /\ frame.idx = 2
    /\ frame.comment_count = 1

\* C26: a parent item on which the user's comments were all created outside
\* the range adds nothing to pr_comments or issue_comments, whenever the
\* item itself was created or updated.
C26_CommentCreationTime ==
    status = "returned" =>
        \A m \in {7, 8} :
            ParentsCommentedOn(m, "alice", job) = {} => Counter("alice", m) = 0

\* GitLab or Pagure was given an item updated within the range whose only
\* comment of alice's was created the day before the range: it counts 0.
C26_Witness ==
    /\ forge \in {"GitLab", "Pagure"}
    /\ status = "returned"
    /\ \E n \in DOMAIN db.items :
           /\ InRange(db.items[n].updated_at, job)
           /\ Len(db.items[n].comments) = 1
           /\ db.items[n].comments[1].author = "alice"
           /\ DateOf(db.items[n].comments[1].created_at) < DateOf(job.start_date)
    /\ Counter("alice", 7) = 0
    /\ Counter("alice", 8) = 0

\* The server never ends the loop of the first request: it sends no
\* X-Total-Pages, answers every page with the same non-empty list, and no
\* request fails.
Endless ==
    /\ ServerMode(server) = "repeat"
    /\ failing = {} /\ unanswered = {}
    /\ ~server.total_pages_header
    /\ \E i \in DOMAIN db.items : db.items[i].type = "issue"

\* C27: GitLab's _make_request ends whenever some answer is empty, is not a
\* list, or carries an X-Total-Pages not greater than the page asked for (or a
\* request fails); when no answer ever does, the loop never returns and each
\* request asks for the page after the last one.
C27_TerminatesUnlessEndless ==
    /\ (~Endless) ~> (status \in {"returned", "raised"})
    /\ [](Endless => status \in {"idle", "running"})
    /\ [][Endless /\ status = "running" =>
            /\ frame'.page = frame.page + 1
            /\ frame'.metric = frame.metric
            /\ status' = "running"]_vars

\* The endless server has been asked for every page up to the bound and the
\* loop is still running its first request.
C27_Witness ==
    /\ Endless
    /\ status = "running"
    /\ frame.metric = 1
    /\ frame.page = MaxPage + 1
    /\ sent = MaxPage

\* A server that repeats its first page but sends X-Total-Pages: the loop ended
\* on the header.
C27_WitnessHeader ==
    /\ ServerMode(server) = "repeat"
    /\ server.total_pages_header
    /\ status = "returned"
    /\ \E i \in DOMAIN db.items : db.items[i].type = "issue"

\* A server that answers an object: the loop ended on the first answer of
\* each request.
C27_WitnessObject ==
    /\ ServerMode(server) = "object"
    /\ status \in {"returned", "raised"}
    /\ failing = {} /\ unanswered = {}

\* C28: add_user_stats never modifies a UserStats object of the caller: over
\* every add_user_stats step, every object that existed before the call keeps
\* its counters and the object passed in holds the values it was built with.
C28_CallerObjectsKept ==
    [][Len(inserted') = Len(inserted) + 1 =>
            /\ \A o \in DOMAIN heap : heap'[o] = heap[o]
            /\ heap'[Len(heap) + 1] = inserted'[Len(inserted')]]_vars

\* Two objects with non-zero counters have been passed in for one username.
C28_Witness ==
    \E i, k \in DOMAIN inserted :
        /\ i < k
        /\ inserted[i].username = inserted[k].username
        /\ Counters(inserted[i]) # ZeroCounters
        /\ Counters(inserted[k]) # ZeroCounters

\* The positions of username in the usernames list of the job.
Occurrences(username) == {i \in DOMAIN job.usernames : job.usernames[i] = username}

\* C29: for every adapter the RepoStats get_repo_stats returns has one entry
\* per distinct username passed in and no other; the entry of a username
\* listed k times holds, counter by counter, the sum of its k fetches, which
\* is k times one fetch as the forge answers each of them the same.
C29_KeysAndRepeatedSum ==
    status = "returned" =>
        /\ DictKeys(repo_stats.user_stats) = {job.usernames[i] : i \in DOMAIN job.usernames}
        /\ \A i, k \in DOMAIN repo_stats.user_stats :
               repo_stats.user_stats[i].k = repo_stats.user_stats[k].k => i = k
        /\ Len(inserted) = Len(job.usernames)
        /\ \A i \in DOMAIN inserted : inserted[i].username = job.usernames[i]
        /\ \A i, k \in DOMAIN inserted :
               inserted[i].username = inserted[k].username => inserted[i] = inserted[k]
        /\ \A i \in DOMAIN job.usernames :
               LET username == job.usernames[i] IN
               /\ CountersOf(repo_stats.user_stats, heap, username)
                      = SumCounters(inserted, username, 1)
               /\ \A f \in DOMAIN Fields :
                      CountersOf(repo_stats.user_stats, heap, username)[f]
                          = Cardinality(Occurrences(username)) * inserted[i][Fields[f]]

\* alice is listed twice and bob once; alice's fetch found something, and her
\* entry holds twice what one fetch found.
C29_Witness ==
    /\ status = "returned"
    /\ job.usernames = <<"alice", "bob", "alice">>
    /\ inserted[1].issues_opened > 0
    /\ CountersOf(repo_stats.user_stats, heap, "alice")[1] = 2 * inserted[1].issues_opened
    /\ DictKeys(repo_stats.user_stats) = {"alice", "bob"}

\* The usernames configured for the forge whose client class is forge_ and
\* that lists repo.
ConfiguredUsernames(forge_, repo) ==
    UNION {{fc.usernames[u] : u \in DOMAIN fc.usernames} :
              fc \in {config.forges[fi] : fi \in
                         {k \in DOMAIN config.forges :
                             /\ DictHas(ForgeClients, Lower(config.forges[k].name))
                             /\ DictGet(ForgeClients, Lower(config.forges[k].name)) = forge_
                             /\ \E ri \in DOMAIN config.forges[k].repos :
                                    config.forges[k].repos[ri] = repo}}}

\* C30: in every run of generate from a configuration whose forges each name
\* a username, every RepoStats of report.repos has a user_stats that is not
\* empty and whose keys are the usernames configured for its forge; so the
\* rendered report has no repository with the "no activity" line and has,
\* for each repository, a row for every configured username, all zero for a
\* user without activity.
C30_EveryRepoHasItsUsers ==
    /\ \A fi \in DOMAIN config.forges : config.forges[fi].usernames # <<>>
    /\ \A i \in DOMAIN report.repos :
           /\ report.repos[i].user_stats # <<>>
           /\ DictKeys(report.repos[i].user_stats)
                  = ConfiguredUsernames(report.repos[i].forge, report.repos[i].repo)
    /\ output.written =>
           /\ output.no_activity = {}
           /\ DOMAIN output.rows = DOMAIN report.repos
           /\ \A i \in DOMAIN report.repos :
                  /\ {row[1] : row \in output.rows[i]}
                         = ConfiguredUsernames(report.repos[i].forge, report.repos[i].repo)
                  /\ \A row \in output.rows[i] :
                         row[2] = CountersOf(report.repos[i].user_stats, heap, row[1])

\* The report was rendered with two repositories, and in one of them a user
\* without activity has an all-zero row next to a user with activity.
C30_Witness ==
    /\ output.written
    /\ Len(report.repos) >= 2
    /\ \E i \in DOMAIN report.repos :
           \E zero, active \in output.rows[i] :
               /\ zero[2] = ZeroCounters
               /\ active[2] # ZeroCounters

====
